---- MODULE Spec2Model ----
(***************************************************************************)
(* Verification model of the senseAble rewrite core (python).              *)
(*                                                                         *)
(* Number representation.  Python floats are modelled exactly where the    *)
(* code only adds, subtracts and clamps them: a sensitivity, a familiarity *)
(* and magnitude*learning_rate are integers counting twentieths (0.05), so *)
(* 1.0 is One == 20.  The three rewrite-strategy priors are divided by     *)
(* their sum in validate(); they are kept as exact rationals n[k] / d with *)
(* one common denominator, so that the division is the real division the   *)
(* float code approximates to about 1e-16.                                 *)
(***************************************************************************)
EXTENDS Integers, Sequences, FiniteSets, TLC

(***************************************************************************)
(* Bounds of the exploration.                                              *)
(***************************************************************************)
\* number of operations applied to one fingerprint object
MaxOps == 3
\* stand-in for the history cap (1000 in saf.py:88-89), scaled down
HistoryCap == 2

(***************************************************************************)
(* Arithmetic helpers.                                                     *)
(***************************************************************************)
\* 1.0 in twentieths
One == 20

Abs(x) == IF x < 0 THEN -x ELSE x

Min2(a, b) == IF a < b THEN a ELSE b

Max2(a, b) == IF a > b THEN a ELSE b

RECURSIVE GCDNat(_, _)
GCDNat(a, b) == IF b = 0 THEN a ELSE GCDNat(b, a % b)

GCD(a, b) == GCDNat(Abs(a), Abs(b))

\* max(0.0, min(1.0, x)) on twentieths
Clamp01(x) == Max2(0, Min2(One, x))

(***************************************************************************)
(* Fingerprint (core/memory/saf.py).                                       *)
(***************************************************************************)
Modalities == <<"vision", "hearing", "smell", "taste", "touch">>

ModalitySet == {Modalities[i] : i \in 1..Len(Modalities)}

StrategyKeys == {"rewrite_minimal", "rewrite_gentle", "rewrite_full"}

FamiliarityKeys == {"local_metaphor_familiarity", "global_metaphor_familiarity"}

\* keys of a wrapped payload, which from_dict copies into data when the
\* payload's "data" entry is missing or falsy
PayloadKeys == {"data", "preferences", "history", "version"}

\* A data map: the set of keys present and the value of each numeric key
\* (0 where the key is absent).  rw is the numerators of the three priors
\* over the common denominator rwd.
ZeroMod == [m \in ModalitySet |-> 0]

ZeroRw == [k \in StrategyKeys |-> 0]

ZeroFam == [k \in FamiliarityKeys |-> 0]

EmptyData == [keys |-> {}, mod |-> ZeroMod, rw |-> ZeroRw, rwd |-> 1, fam |-> ZeroFam]

\* reduce the priors n/d to lowest terms with d > 0
ReduceRw(n, d) ==
    LET g == GCD(GCD(GCD(n["rewrite_minimal"], n["rewrite_gentle"]), n["rewrite_full"]), d)
    IN  IF g = 0 THEN [n |-> ZeroRw, d |-> 1]
        ELSE [n |-> [k \in StrategyKeys |-> n[k] \div g], d |-> d \div g]

\* field default_factory of `data`
DefaultData ==
    [keys |-> ModalitySet \cup StrategyKeys \cup FamiliarityKeys,
     mod  |-> ZeroMod,
     rw   |-> [k \in StrategyKeys |-> IF k = "rewrite_full" THEN 34 ELSE 33],
     rwd  |-> 100,
     fam  |-> [k \in FamiliarityKeys |-> 10]]

\* SensoryAccessibilityFingerprint()
DefaultSAF == [data |-> DefaultData, preferences |-> {}, history |-> <<>>, version |-> 1]

\* self.data.get(m, 0.0) for a modality key
GetMod(data, m) == IF m \in data.keys THEN data.mod[m] ELSE 0

\* self.data.get(k, 0.0) for a strategy key, as a numerator over data.rwd
GetRw(data, k) == IF k \in data.keys THEN data.rw[k] ELSE 0

\* rmin + rgen + rfull >= 1e-6, the sum being s / d
AtLeastFloor(s, d) == IF s <= 0 THEN FALSE ELSE IF s > 2147 THEN TRUE ELSE s * 1000000 >= d

\* validate(): clamp the five modalities, divide the priors by max(1e-6, sum)
validate(f) ==
    LET dt   == f.data
        n    == [k \in StrategyKeys |-> GetRw(dt, k)]
        s    == n["rewrite_minimal"] + n["rewrite_gentle"] + n["rewrite_full"]
        g    == GCD(1000000, dt.rwd)
        r    == IF AtLeastFloor(s, dt.rwd)
                THEN ReduceRw(n, s)
                ELSE ReduceRw([k \in StrategyKeys |-> n[k] * (1000000 \div g)], dt.rwd \div g)
    IN  [f EXCEPT !.data =
            [keys |-> dt.keys \cup ModalitySet \cup StrategyKeys,
             mod  |-> [m \in ModalitySet |-> Clamp01(GetMod(dt, m))],
             rw   |-> r.n,
             rwd  |-> r.d,
             fam  |-> dt.fam]]

\* rewrite_minimal + rewrite_gentle + rewrite_full = 1.0 within 1e-6
PriorsSumToOne(f) ==
    LET s == GetRw(f.data, "rewrite_minimal") + GetRw(f.data, "rewrite_gentle")
               + GetRw(f.data, "rewrite_full")
        d == f.data.rwd
        e == Abs(s - d)
    IN  IF e = 0 THEN TRUE ELSE IF e > 2147 THEN FALSE ELSE e * 1000000 <= d

\* The model's integers are 32 bits wide: an operation is explored only while
\* the numerators and the denominator of the priors stay below Limit.
Limit == 10 ^ 8

\* validate(f) stays below Limit
CanValidate(f) ==
    LET dt == f.data
        s  == GetRw(dt, "rewrite_minimal") + GetRw(dt, "rewrite_gentle") + GetRw(dt, "rewrite_full")
        g  == GCD(1000000, dt.rwd)
    IN  \/ AtLeastFloor(s, dt.rwd)
        \/ \A k \in StrategyKeys : Abs(GetRw(dt, k)) <= Limit \div (1000000 \div g)

\* adding mag twentieths to a prior of f stays below Limit
CanAdd(f, mag) ==
    /\ f.data.rwd <= Limit \div (One * (Abs(mag) + 1))
    /\ \A k \in StrategyKeys : Abs(GetRw(f.data, k)) <= Limit \div (2 * One)

\* to_dict(): a wrapped payload holding copies of the four fields
to_dict(f) ==
    [kind |-> "wrapped", data |-> f.data, preferences |-> f.preferences,
     history |-> f.history, version |-> f.version]

\* payload kinds: "none" is None or {}, "wrapped" has the four keys of
\* to_dict, "flat" is a bare data map such as {"vision": 0.5}
NonePayload ==
    [kind |-> "none", data |-> EmptyData, preferences |-> {}, history |-> <<>>, version |-> 1]

\* from_dict(payload): data = payload.get("data") or payload
from_dict(p) ==
    LET data == IF p.kind = "wrapped"
                THEN IF p.data.keys = {}
                     THEN [EmptyData EXCEPT !.keys = PayloadKeys]
                     ELSE p.data
                ELSE IF p.kind = "flat" THEN p.data ELSE EmptyData
        prefs   == IF p.kind = "wrapped" THEN p.preferences ELSE {}
        history == IF p.kind = "wrapped" THEN p.history ELSE <<>>
        version == IF p.kind = "wrapped" THEN p.version ELSE 1
    IN  validate([data |-> data, preferences |-> prefs, history |-> history,
                  version |-> version])

\* an interaction event; timestamp 0 stands for "no timestamp key"
Event(type, action, modality, magnitude, timestamp) ==
    [type |-> type, action |-> action, modality |-> modality,
     magnitude |-> magnitude, timestamp |-> timestamp]

\* the last n elements of s, s[-n:]
LastN(s, n) == IF Len(s) <= n THEN s ELSE SubSeq(s, Len(s) - n + 1, Len(s))

\* record_interaction(event) at time now
record_interaction(f, event, now) ==
    LET e == IF event.timestamp = 0 THEN [event EXCEPT !.timestamp = now] ELSE event
        h == Append(f.history, e)
    IN  [f EXCEPT !.history = IF Len(h) > HistoryCap THEN LastN(h, HistoryCap) ELSE h]

\* str(...).lower() on the action names the model feeds
Lower(a) == IF a = "Accept" THEN "accept" ELSE a

\* the prior key an action increments
PriorOf(action) ==
    IF action = "accept" THEN "rewrite_gentle"
    ELSE IF action = "reject" THEN "rewrite_full" ELSE "rewrite_minimal"

\* data[k] = float(data.get(k, 0.0)) + mag for a strategy key, mag in twentieths
AddToPrior(dt, k, mag) ==
    LET n == [j \in StrategyKeys |->
                 IF j = k THEN GetRw(dt, j) * One + mag * dt.rwd ELSE GetRw(dt, j) * One]
        r == ReduceRw(n, dt.rwd * One)
    IN  [dt EXCEPT !.keys = dt.keys \cup {k},
                   !.rw = [j \in StrategyKeys |-> IF j \in dt.keys \cup {k} THEN r.n[j] ELSE 0],
                   !.rwd = r.d]

\* the statements of update_from_feedback up to and including the
\* sensitivity branch (lines 100-111)
AfterSensitivity(f, action, modality, mag) ==
    IF modality \in ModalitySet
    THEN LET cur == GetMod(f.data, modality)
             new == IF action \in {"worsen", "sensitivity_inc"} THEN Min2(One, cur + mag)
                    ELSE IF action \in {"improve", "sensitivity_dec"} THEN Max2(0, cur - mag)
                    ELSE cur
         IN  [f EXCEPT !.data.keys = @ \cup {modality}, !.data.mod[modality] = new]
    ELSE f

\* the rewrite strategy branch (lines 114-120)
AfterStrategy(f, action, mag) ==
    IF action \in {"accept", "reject", "edit"}
    THEN [f EXCEPT !.data = AddToPrior(f.data, PriorOf(action), mag)]
    ELSE f

\* one familiarity statement (lines 123-126); kind is "absent", "num" or "bad"
AfterFamiliarity(f, key, kind, v) ==
    IF kind = "num"
    THEN [f EXCEPT !.data.keys = @ \cup {key}, !.data.fam[key] = Clamp01(v)]
    ELSE f

\* magnitude = float(feedback.get("magnitude", 1.0)) * float(learning_rate)
Magnitude(fb, lr) == (IF fb.magKind = "absent" THEN 1 ELSE fb.magnitude) * lr

\* the fingerprint after the sensitivity and strategy branches (lines 104-120)
BeforeFamiliarity(f, fb, lr) ==
    AfterStrategy(AfterSensitivity(f, Lower(fb.action), fb.modality, Magnitude(fb, lr)),
                  Lower(fb.action), Magnitude(fb, lr))

\* update_from_feedback(feedback, learning_rate) at time now: the fingerprint
\* it leaves behind and whether the except clause was entered
update_from_feedback(f, fb, lr, now) ==
    LET action == Lower(fb.action)
        mag    == Magnitude(fb, lr)
        f2     == BeforeFamiliarity(f, fb, lr)
        f3     == AfterFamiliarity(f2, "local_metaphor_familiarity", fb.lmfKind, fb.lmf)
        f4     == AfterFamiliarity(f3, "global_metaphor_familiarity", fb.gmfKind, fb.gmf)
        f5     == validate(f4)
    IN  IF fb.magKind = "bad" THEN [saf |-> f, raised |-> TRUE]
        ELSE IF fb.lmfKind = "bad" THEN [saf |-> f2, raised |-> TRUE]
        ELSE IF fb.gmfKind = "bad" THEN [saf |-> f3, raised |-> TRUE]
        ELSE [saf |-> record_interaction(f5, Event("feedback", action, fb.modality, mag, 0), now),
              raised |-> FALSE]

\* adjust_modality_sensitivity(modality, delta); raised stands for the KeyError
adjust_modality_sensitivity(f, modality, delta) ==
    IF modality \notin ModalitySet THEN [saf |-> f, raised |-> TRUE]
    ELSE [saf |-> [f EXCEPT !.data.keys = @ \cup {modality},
                            !.data.mod[modality] = Clamp01(GetMod(f.data, modality) + delta)],
          raised |-> FALSE]

\* update_from_feedback(f, fb, lr) stays below Limit
CanUpdate(f, fb, lr) ==
    \/ fb.magKind = "bad"
    \/ /\ Lower(fb.action) \in {"accept", "reject", "edit"} => CanAdd(f, Magnitude(fb, lr))
       /\ (fb.lmfKind # "bad" /\ fb.gmfKind # "bad") => CanValidate(BeforeFamiliarity(f, fb, lr))

(***************************************************************************)
(* FileStorage and AgenticMemory (core/memory/storage.py,                  *)
(* core/memory/agentic_memory.py).                                         *)
(***************************************************************************)
\* stand-in for the interaction-log cap (2000 in agentic_memory.py:81-82)
LogCap == 3

\* A file <key>.json: absent, opened for writing and not yet written
\* ("partial": open(path, "w") has truncated it), or holding a value.
\* A fingerprint file keeps its payload in saf, a log file its list in log.
AbsentFile == [state |-> "absent", saf |-> NonePayload, log |-> <<>>]

\* the file after open(path, "w") and before json.dump
TruncatedFile == [state |-> "partial", saf |-> NonePayload, log |-> <<>>]

\* FileStorage.load: None for a missing file, the value of a complete file;
\* json.load raises on a truncated file
load(file) ==
    IF file.state = "absent" THEN [raised |-> FALSE, none |-> TRUE, value |-> file]
    ELSE IF file.state = "partial" THEN [raised |-> TRUE, none |-> TRUE, value |-> file]
    ELSE [raised |-> FALSE, none |-> FALSE, value |-> file]

\* AgenticMemory.load_fingerprint on the content of <user_id>.json
load_fingerprint(file) ==
    LET r == load(file)
    IN  IF r.raised THEN [raised |-> TRUE, fp |-> DefaultSAF]
        ELSE IF r.none THEN [raised |-> FALSE, fp |-> DefaultSAF]
        ELSE [raised |-> FALSE, fp |-> from_dict(r.value.saf)]

\* the list log_interaction saves: logs.append(event), bounded
log_interaction(logs, event) ==
    LET l == Append(logs, event)
    IN  IF Len(l) > LogCap THEN LastN(l, LogCap) ELSE l

(***************************************************************************)
(* Overlap resolution (core/detection/sensory_detector.py).                *)
(***************************************************************************)
Span(modality, start_char, end_char, confidence) ==
    [modality |-> modality, start_char |-> start_char, end_char |-> end_char,
     confidence |-> confidence]

\* the sort key (start_char, -confidence) of a is strictly below that of b
KeyLess(a, b) ==
    \/ a.start_char < b.start_char
    \/ a.start_char = b.start_char /\ a.confidence > b.confidence

\* insert x into the sorted list s after every element whose key is not
\* above x's: the stable order of sorted()
RECURSIVE InsertSorted(_, _)
InsertSorted(s, x) ==
    IF s = <<>> THEN <<x>>
    ELSE IF KeyLess(x, Head(s)) THEN <<x>> \o s
    ELSE <<Head(s)>> \o InsertSorted(Tail(s), x)

\* sorted(spans, key=(start_char, -confidence))
RECURSIVE SortSpans(_)
SortSpans(s) ==
    IF s = <<>> THEN <<>>
    ELSE InsertSorted(SortSpans(SubSeq(s, 1, Len(s) - 1)), s[Len(s)])

\* not (e <= es or s >= ee)
Overlaps(sp, existing) ==
    ~(sp.end_char <= existing.start_char \/ sp.start_char >= existing.end_char)

\* list.remove(x): drop the first element equal to x
RECURSIVE RemoveFirst(_, _)
RemoveFirst(s, x) ==
    IF s = <<>> THEN <<>>
    ELSE IF Head(s) = x THEN Tail(s)
    ELSE <<Head(s)>> \o RemoveFirst(Tail(s), x)

\* the inner loop `for existing in result[:]` over the snapshot, from its
\* k-th element on: the list result and the flag overlap it ends with
RECURSIVE ScanExisting(_, _, _, _, _)
ScanExisting(sp, snapshot, k, result, overlap) ==
    IF k > Len(snapshot) THEN [result |-> result, overlap |-> overlap]
    ELSE LET existing == snapshot[k]
         IN  IF Overlaps(sp, existing)
             THEN IF sp.confidence > existing.confidence
                  THEN ScanExisting(sp, snapshot, k + 1, RemoveFirst(result, existing), overlap)
                  ELSE ScanExisting(sp, snapshot, k + 1, result, TRUE)
             ELSE ScanExisting(sp, snapshot, k + 1, result, overlap)

\* a pass of the outer loop that appends sp whether or not it overlapped
KeepOrDrop_appending(result, sp) ==
    Append(ScanExisting(sp, result, 1, result, FALSE).result, sp)

\* one pass of the outer loop for the span sp
KeepOrDrop(result, sp) ==
    LET r == ScanExisting(sp, result, 1, result, FALSE)
    IN  IF r.overlap THEN r.result ELSE Append(r.result, sp)

\* the outer loop over spans_sorted from its k-th element on
RECURSIVE ResolveFrom(_, _, _)
ResolveFrom(sorted, k, result) ==
    IF k > Len(sorted) THEN result
    ELSE ResolveFrom(sorted, k + 1, KeepOrDrop(result, sorted[k]))

\* _resolve_overlaps(spans).  Every span the detector builds carries both
\* offsets, so the branch for a span without start_char or end_char
\* (lines 222-224) is never taken and is left out.
_resolve_overlaps(spans) ==
    IF spans = <<>> THEN <<>> ELSE ResolveFrom(SortSpans(spans), 1, <<>>)

(***************************************************************************)
(* Text.  A python str is a sequence of one-character strings over the     *)
(* alphabet of the space, the hyphen and the ASCII letters.                *)
(***************************************************************************)
Space == " "

Hyphen == "-"

UpperLetters ==
    <<"A", "B", "C", "D", "E", "F", "G", "H", "I", "J", "K", "L", "M",
      "N", "O", "P", "Q", "R", "S", "T", "U", "V", "W", "X", "Y", "Z">>

LowerLetters ==
    <<"a", "b", "c", "d", "e", "f", "g", "h", "i", "j", "k", "l", "m",
      "n", "o", "p", "q", "r", "s", "t", "u", "v", "w", "x", "y", "z">>

\* the capital letters, and the lower-case letter of each
ToLower == [c \in {UpperLetters[k] : k \in DOMAIN UpperLetters} |->
                LowerLetters[CHOOSE k \in DOMAIN UpperLetters : UpperLetters[k] = c]]

IsUpper(c) == c \in DOMAIN ToLower

\* ord(c) for every character of the alphabet
OrdOf ==
    [c \in {Space, Hyphen} \cup DOMAIN ToLower
            \cup {LowerLetters[k] : k \in DOMAIN LowerLetters} |->
        IF c = Space THEN 32
        ELSE IF c = Hyphen THEN 45
        ELSE IF IsUpper(c) THEN 64 + (CHOOSE k \in DOMAIN UpperLetters : UpperLetters[k] = c)
        ELSE 96 + (CHOOSE k \in DOMAIN LowerLetters : LowerLetters[k] = c)]

\* ord(c)
Ord(c) == OrdOf[c]

\* c.lower()
LowerChar(c) == IF IsUpper(c) THEN ToLower[c] ELSE c

\* s.lower()
LowerStr(s) == [k \in 1..Len(s) |-> LowerChar(s[k])]

\* a < b for two str
RECURSIVE StrLess(_, _)
StrLess(a, b) ==
    IF b = <<>> THEN FALSE
    ELSE IF a = <<>> THEN TRUE
    ELSE IF Head(a) # Head(b) THEN Ord(Head(a)) < Ord(Head(b))
    ELSE StrLess(Tail(a), Tail(b))

\* s.split(): the maximal runs of non-space characters, with the run being
\* read in cur
RECURSIVE SplitFrom(_, _, _)
SplitFrom(s, k, cur) ==
    IF k > Len(s) THEN (IF cur = <<>> THEN <<>> ELSE <<cur>>)
    ELSE IF s[k] = Space
         THEN (IF cur = <<>> THEN <<>> ELSE <<cur>>) \o SplitFrom(s, k + 1, <<>>)
         ELSE SplitFrom(s, k + 1, Append(cur, s[k]))

Split(s) == SplitFrom(s, 1, <<>>)

Range(f) == {f[k] : k \in DOMAIN f}

\* {t.strip().lower() for t in a.split() if t.strip()}
TokenSet(s) == {LowerStr(w) : w \in Range(Split(s))}

\* set(re.findall(r"\b[A-Z][a-zA-Z0-9_]+\b", s)): for a text of letters and
\* spaces, the words of two or more characters that start with a capital
Capitals(s) == {w \in Range(Split(s)) : Len(w) >= 2 /\ IsUpper(w[1])}

\* old occurs in s at position k
MatchesAt(s, k, old) ==
    /\ k + Len(old) - 1 <= Len(s)
    /\ \A j \in 1..Len(old) : s[k + j - 1] = old[j]

\* sub in s
SubText(sub, s) == \E k \in 1..(Len(s) + 1) : MatchesAt(s, k, sub)

\* re.sub(re.escape(old), new, s) from position k on: the leftmost
\* non-overlapping occurrences are replaced; an empty pattern matches
\* before every character and at the end
RECURSIVE SubFrom(_, _, _, _)
SubFrom(s, k, old, new) ==
    IF old = <<>>
    THEN IF k > Len(s) THEN new ELSE new \o <<s[k]>> \o SubFrom(s, k + 1, old, new)
    ELSE IF k > Len(s) THEN <<>>
    ELSE IF MatchesAt(s, k, old) THEN new \o SubFrom(s, k + Len(old), old, new)
    ELSE <<s[k]>> \o SubFrom(s, k + 1, old, new)

\* _apply_replacements(text, replacements) from the k-th pair on
RECURSIVE ApplyFrom(_, _, _)
ApplyFrom(text, reps, k) ==
    IF k > Len(reps) THEN text
    ELSE ApplyFrom(SubFrom(text, 1, reps[k].old, reps[k].new.text), reps, k + 1)

_apply_replacements(text, reps) == ApplyFrom(text, reps, 1)

(***************************************************************************)
(* difflib.SequenceMatcher(None, a, b).ratio() as the pair (2*M, T): M the *)
(* number of matched characters, T = len(a) + len(b).  No character is     *)
(* junk and autojunk needs 200 characters.                                 *)
(***************************************************************************)
\* length of the common run of a from i and b from j inside [.., ahi) x [.., bhi)
RECURSIVE RunLen(_, _, _, _, _, _)
RunLen(a, b, i, j, ahi, bhi) ==
    IF i >= ahi \/ j >= bhi THEN 0
    ELSE IF a[i + 1] # b[j + 1] THEN 0
    ELSE 1 + RunLen(a, b, i + 1, j + 1, ahi, bhi)

\* find_longest_match(alo, ahi, blo, bhi): the longest block, the earliest
\* in a among the longest, the earliest in b among those (0-based, half-open)
find_longest_match(a, b, alo, ahi, blo, bhi) ==
    LET blocks == {<<i, j, RunLen(a, b, i, j, ahi, bhi)>> : i \in alo..(ahi - 1), j \in blo..(bhi - 1)}
        Better(x, y) == \/ x[3] > y[3]
                        \/ x[3] = y[3] /\ x[1] < y[1]
                        \/ x[3] = y[3] /\ x[1] = y[1] /\ x[2] <= y[2]
    IN  IF blocks = {} THEN <<alo, blo, 0>>
        ELSE CHOOSE x \in blocks : \A y \in blocks : Better(x, y)

\* the characters matched by get_matching_blocks inside the two ranges
RECURSIVE Matched(_, _, _, _, _, _)
Matched(a, b, alo, ahi, blo, bhi) ==
    LET m == find_longest_match(a, b, alo, ahi, blo, bhi)
    IN  IF m[3] = 0 THEN 0
        ELSE m[3]
             + (IF alo < m[1] /\ blo < m[2] THEN Matched(a, b, alo, m[1], blo, m[2]) ELSE 0)
             + (IF m[1] + m[3] < ahi /\ m[2] + m[3] < bhi
                THEN Matched(a, b, m[1] + m[3], ahi, m[2] + m[3], bhi) ELSE 0)

\* ratio() = 2.0 * M / T, 1.0 when both are empty
Ratio(a, b) ==
    IF Len(a) + Len(b) = 0 THEN [num |-> 1, den |-> 1]
    ELSE [num |-> 2 * Matched(a, b, 0, Len(a), 0, Len(b)), den |-> Len(a) + Len(b)]

(***************************************************************************)
(* Validation (core/generation/constraints.py and rewrite_engine.py).      *)
(* Scores are exact fractions num/den; thresholds are tenths.              *)
(***************************************************************************)
\* constraints.preserve_named_entities
preserve_named_entities(original, rewritten) ==
    IF Capitals(original) = {} THEN TRUE ELSE Capitals(original) \subseteq Capitals(rewritten)

\* rewrite_engine._preserve_named_entities
_preserve_named_entities(original, rewritten) == Capitals(original) \subseteq Capitals(rewritten)

\* rewrite_engine._semantic_similarity: token Jaccard, 1.0 for two empty sets
_semantic_similarity(a, b) ==
    LET ta == TokenSet(a)
        tb == TokenSet(b)
    IN  IF ta = {} /\ tb = {} THEN [num |-> 1, den |-> 1]
        ELSE [num |-> Cardinality(ta \cap tb), den |-> Cardinality(ta \cup tb)]

\* constraints._default_semantic_similarity: 0.6 * jacc + 0.4 * seq
_default_semantic_similarity(a, b) ==
    LET ta   == TokenSet(a)
        tb   == TokenSet(b)
        jacc == IF ta # {} /\ tb # {}
                THEN [num |-> Cardinality(ta \cap tb), den |-> Max2(1, Cardinality(ta \cup tb))]
                ELSE [num |-> 0, den |-> 1]
        seq  == Ratio(a, b)
    IN  [num |-> 6 * jacc.num * seq.den + 4 * seq.num * jacc.den,
         den |-> 10 * jacc.den * seq.den]

\* score >= threshold, the threshold in tenths
AtLeast(score, tenths) == 10 * score.num >= tenths * score.den

\* x > y for two scores
ScoreGreater(x, y) == x.num * y.den > y.num * x.den

\* rewrite_engine.validate_rewrite(original, rewritten, threshold=0.4)
validate_rewrite(original, rewritten) ==
    /\ _preserve_named_entities(original, rewritten)
    /\ AtLeast(_semantic_similarity(original, rewritten), 4)

\* the alternatives validate_rewrites keeps, from the k-th candidate on
RECURSIVE ValidFrom(_, _, _, _, _)
ValidFrom(original, alts, k, tenths, preserve_entities) ==
    IF k > Len(alts) THEN <<>>
    ELSE (IF /\ preserve_entities => preserve_named_entities(original, alts[k])
             /\ AtLeast(_default_semantic_similarity(original, alts[k]), tenths)
          THEN <<alts[k]>> ELSE <<>>)
         \o ValidFrom(original, alts, k + 1, tenths, preserve_entities)

\* validate_rewrites without the `if not valid` fallback of lines 98-100
validate_rewrites_unguarded(original, alts, tenths, preserve_entities) ==
    ValidFrom(original, alts, 1, tenths, preserve_entities)

\* constraints.validate_rewrites(original, rewrites, threshold,
\* preserve_entities=...): the list `alternatives` of the dict it returns
\* (its strategy is rewrites' own)
validate_rewrites(original, alts, tenths, preserve_entities) ==
    LET valid == ValidFrom(original, alts, 1, tenths, preserve_entities)
    IN  IF valid = <<>> THEN <<original>> ELSE valid

(***************************************************************************)
(* Strategy selection and rewrite generation (core/generation/spectrum.py, *)
(* core/generation/rewrite_engine.py).                                     *)
(*                                                                         *)
(* A fingerprint argument is [kind, data]: kind "saf" is a                 *)
(* SensoryAccessibilityFingerprint (it has .data and no .get), "dict" a    *)
(* non-empty plain dict and "none" None or {} (they have .get and no       *)
(* .data), "profile" a mapping object that also carries .data.             *)
(***************************************************************************)
HasData(fp) == fp.kind \in {"saf", "profile"}

HasGet(fp) == fp.kind \in {"dict", "none", "profile"}

\* bool(fingerprint)
Truthy(fp) == fp.kind # "none"

\* fingerprint.data.get(key, default) as a fraction; the defaults are
\* 0.33, 0.33 and 0.34
PriorOrDefault(data, k) ==
    IF k \in data.keys THEN [num |-> data.rw[k], den |-> data.rwd]
    ELSE [num |-> IF k = "rewrite_full" THEN 34 ELSE 33, den |-> 100]

\* max(scores, key=scores.get) keeping the last maximal key
select_rewrite_strategy_last(fp) ==
    LET smin  == PriorOrDefault(fp.data, "rewrite_minimal")
        sgen  == PriorOrDefault(fp.data, "rewrite_gentle")
        sfull == PriorOrDefault(fp.data, "rewrite_full")
    IN  IF ~ScoreGreater(smin, sfull) /\ ~ScoreGreater(sgen, sfull) THEN "full"
        ELSE IF ~ScoreGreater(smin, sgen) THEN "gentle" ELSE "minimal"

\* select_rewrite_strategy: max(scores, key=scores.get) returns the first
\* maximal key in the order minimal, gentle, full
select_rewrite_strategy(fp) ==
    LET smin  == PriorOrDefault(fp.data, "rewrite_minimal")
        sgen  == PriorOrDefault(fp.data, "rewrite_gentle")
        sfull == PriorOrDefault(fp.data, "rewrite_full")
        best2 == IF ScoreGreater(sgen, smin) THEN sgen ELSE smin
    IN  IF ScoreGreater(sfull, best2) THEN "full"
        ELSE IF ScoreGreater(sgen, smin) THEN "gentle" ELSE "minimal"

\* an alternative handed to the engine: a str, or (isStr = FALSE) the dict
\* {"text": ..., "modality": ..., "score": ..., "justification": ...}
\* that reason_about_span produces
StrAlt(text) == [isStr |-> TRUE, text |-> text]

DictAlt(text) == [isStr |-> FALSE, text |-> text]

\* a candidate bundle as generate_rewrites reads it: span["token"] and
\* the list `alternatives`
Bundle(token, alts) == [token |-> token, alts |-> alts]

\* the list `replacements` from the k-th candidate on (lines 106-111)
RECURSIVE ReplacementsFrom(_, _)
ReplacementsFrom(cands, k) ==
    IF k > Len(cands) THEN <<>>
    ELSE (IF cands[k].alts = <<>> THEN <<>>
          ELSE <<[old |-> cands[k].token, new |-> cands[k].alts[1]]>>)
         \o ReplacementsFrom(cands, k + 1)

\* two replacement tuples that sorted() cannot order: equal tokens and
\* different alternatives that are not both str
Unorderable(x, y) == x.old = y.old /\ x.new # y.new /\ ~(x.new.isStr /\ y.new.isStr)

\* tuple x < tuple y
RepLess(x, y) ==
    \/ StrLess(x.old, y.old)
    \/ x.old = y.old /\ StrLess(x.new.text, y.new.text)

RECURSIVE InsertRep(_, _)
InsertRep(s, x) ==
    IF s = <<>> THEN <<x>>
    ELSE IF RepLess(x, Head(s)) THEN <<x>> \o s
    ELSE <<Head(s)>> \o InsertRep(Tail(s), x)

\* sorted(replacements)
RECURSIVE SortReps(_)
SortReps(s) ==
    IF s = <<>> THEN <<>>
    ELSE InsertRep(SortReps(SubSeq(s, 1, Len(s) - 1)), s[Len(s)])

\* _cache_key(text, replacements, strategy); the three parts of the
\* formatted string are kept apart
_cache_key(text, reps, strategy) == <<strategy, text, SortReps(reps)>>

\* the gentle loop from the k-th replacement on (lines 124-127)
RECURSIVE GentleFrom(_, _, _, _)
GentleFrom(text, reps, k, validating) ==
    IF k > Len(reps) THEN <<>>
    ELSE LET alt == _apply_replacements(text, <<reps[k]>>)
         IN  (IF ~validating \/ validate_rewrite(text, alt) THEN <<alt>> ELSE <<>>)
             \o GentleFrom(text, reps, k + 1, validating)

\* a strategy branch whose minimal output is the text with a word added
StrategyAlternatives_padded(text, reps, strategy, validating) ==
    IF strategy = "minimal" THEN <<text \o <<Space, "d">>>>
    ELSE IF strategy = "gentle"
    THEN LET alts == GentleFrom(text, reps, 1, validating)
         IN  IF alts = <<>> THEN <<text>> ELSE alts
    ELSE LET rewritten == _apply_replacements(text, reps)
         IN  IF ~validating \/ validate_rewrite(text, rewritten) THEN <<rewritten>> ELSE <<text>>

\* the list `alternatives` built by the strategy branch (lines 118-137)
StrategyAlternatives(text, reps, strategy, validating) ==
    IF strategy = "minimal" THEN <<text>>
    ELSE IF strategy = "gentle"
    THEN LET alts == GentleFrom(text, reps, 1, validating)
         IN  IF alts = <<>> THEN <<text>> ELSE alts
    ELSE LET rewritten == _apply_replacements(text, reps)
         IN  IF ~validating \/ validate_rewrite(text, rewritten) THEN <<rewritten>> ELSE <<text>>

\* the rewrites the strategy branch produces from the replacements before
\* any of them is validated: none for minimal, one per replacement for
\* gentle, one for full (lines 118-137)
Generated(text, reps, strategy) ==
    IF strategy = "minimal" THEN <<>>
    ELSE IF strategy = "gentle" THEN GentleFrom(text, reps, 1, FALSE)
    ELSE <<_apply_replacements(text, reps)>>

\* insert the alternative x after every alternative whose score is not
\* below x's: list.sort(key=score, reverse=True) is stable
RECURSIVE InsertByScore(_, _, _)
InsertByScore(s, x, text) ==
    IF s = <<>> THEN <<x>>
    ELSE IF ScoreGreater(_semantic_similarity(text, x), _semantic_similarity(text, Head(s)))
    THEN <<x>> \o s
    ELSE <<Head(s)>> \o InsertByScore(Tail(s), x, text)

\* the alternatives ordered by _semantic_similarity, descending (lines 143-150)
RECURSIVE SortByScore(_, _)
SortByScore(alts, text) ==
    IF alts = <<>> THEN <<>>
    ELSE InsertByScore(SortByScore(SubSeq(alts, 1, Len(alts) - 1), text), alts[Len(alts)], text)

\* a cache that holds the last stored entry only
Store_evicting(cache, key, value) == [k \in {key} |-> value]

\* _REWRITE_CACHE[key] = value
Store(cache, key, value) ==
    [k \in DOMAIN cache \cup {key} |-> IF k = key THEN value ELSE cache[k]]

\* generate_rewrites(text, candidates, fingerprint, strategy_override,
\* validate) against the cache: what it returns, whether it raised, and the
\* cache it leaves.  override "" stands for None.
generate_rewrites(text, cands, fp, override, validating, cache) ==
    LET failed   == [raised |-> TRUE, hit |-> FALSE, alternatives |-> <<>>,
                     strategy |-> "", cache |-> cache]
        strategy == IF override # "" THEN override ELSE select_rewrite_strategy(fp)
        reps     == ReplacementsFrom(cands, 1)
        key      == _cache_key(text, reps, strategy)
        built    == StrategyAlternatives(text, reps, strategy, validating)
        final    == SortByScore(validate_rewrites(text, built, 4, TRUE), text)
    IN  IF override = "" /\ ~HasData(fp) THEN failed
        ELSE IF \E x \in DOMAIN reps : \E y \in DOMAIN reps : x < y /\ Unorderable(reps[x], reps[y])
        THEN failed
        ELSE IF key \in DOMAIN cache
        THEN [raised |-> FALSE, hit |-> TRUE, alternatives |-> cache[key],
              strategy |-> strategy, cache |-> cache]
        ELSE IF strategy # "minimal" /\ \E x \in DOMAIN reps : ~reps[x].new.isStr
        THEN failed
        ELSE [raised |-> FALSE, hit |-> FALSE, alternatives |-> final,
              strategy |-> strategy, cache |-> Store(cache, key, final)]

(***************************************************************************)
(* Detection and the per-span stages as the pipeline runs them             *)
(* (core/detection/sensory_detector.py, core/detection/taxonomy.py,        *)
(* core/stg/traversal.py, core/reasoning/multisensory.py).                 *)
(***************************************************************************)
\* the keys of taxonomy.LANGUAGE_VARIANTS
LANGUAGE_VARIANTS == {"en", "es", "fr", "de"}

\* SENSORY_TAXONOMY[modality]["cultural_weight"] in hundredths
CulturalWeight(modality) ==
    CASE modality = "vision" -> 90 [] modality = "hearing" -> 70 [] modality = "smell" -> 60
      [] modality = "taste" -> 50 [] modality = "touch" -> 80 [] OTHER -> 65

\* CULTURAL_MODIFIERS.get(culture, CULTURAL_MODIFIERS["global"])[modality]
\* in hundredths
CulturalModifier(culture, modality) ==
    CASE culture = "us" ->
             (CASE modality = "vision" -> 100 [] modality = "hearing" -> 95
                [] modality = "touch" -> 90 [] modality = "smell" -> 80
                [] modality = "taste" -> 85 [] OTHER -> 90)
      [] culture = "jp" ->
             (CASE modality = "vision" -> 95 [] modality = "hearing" -> 90
                [] modality = "touch" -> 70 [] modality = "smell" -> 85
                [] modality = "taste" -> 90 [] OTHER -> 100)
      [] culture = "mx" ->
             (CASE modality = "vision" -> 90 [] modality = "hearing" -> 100
                [] modality = "touch" -> 95 [] modality = "smell" -> 95
                [] modality = "taste" -> 100 [] OTHER -> 90)
      [] OTHER -> 100

\* the names of SENSORY_TAXONOMY
TaxonomyNames == {"vision", "hearing", "smell", "taste", "touch", "cross_sensory"}

\* taxonomy.get_cultural_emphasis(culture, modality) in units of 1e-4, as
\* the scorer reads it: 1.0 when it raises KeyError for an unknown modality
\* (zero_shot_scorer.py:73-76)
get_cultural_emphasis(culture, modality) ==
    IF modality \in TaxonomyNames
    THEN CulturalWeight(modality) * CulturalModifier(culture, modality)
    ELSE 10000

\* the normalised base_keywords, verbs, adjectives and intensity_markers of
\* SENSORY_TAXONOMY[modality]
TaxonomyWords(modality) ==
    IF modality = "vision" THEN
        {<<"b", "l", "i", "n", "d", "i", "n", "g">>,
         <<"b", "r", "i", "g", "h", "t">>, <<"c", "o", "l", "o", "r">>,
         <<"c", "o", "l", "o", "u", "r">>, <<"d", "a", "r", "k">>,
         <<"d", "a", "z", "z", "l", "i", "n", "g">>, <<"d", "i", "m">>,
         <<"e", "y", "e">>, <<"f", "a", "i", "n", "t">>,
         <<"g", "a", "z", "e">>, <<"g", "l", "a", "r", "e">>,
         <<"g", "l", "i", "m", "p", "s", "e">>, <<"g", "l", "o", "w">>,
         <<"i", "n", "t", "e", "n", "s", "e">>, <<"l", "i", "g", "h", "t">>,
         <<"l", "o", "o", "k">>, <<"m", "i", "l", "d">>,
         <<"n", "o", "t", "i", "c", "e">>,
         <<"o", "b", "s", "e", "r", "v", "e">>, <<"p", "a", "l", "e">>,
         <<"s", "e", "e">>, <<"s", "h", "a", "d", "o", "w">>,
         <<"s", "h", "i", "n", "e">>, <<"s", "i", "g", "h", "t">>,
         <<"s", "t", "r", "o", "n", "g">>,
         <<"v", "i", "b", "r", "a", "n", "t">>,
         <<"v", "i", "s", "i", "b", "l", "e">>,
         <<"v", "i", "s", "i", "o", "n">>, <<"v", "i", "v", "i", "d">>}
    ELSE IF modality = "hearing" THEN
        {<<"a", "u", "d", "i", "o">>, <<"b", "u", "z", "z">>,
         <<"d", "e", "a", "f", "e", "n", "i", "n", "g">>,
         <<"e", "c", "h", "o">>, <<"h", "e", "a", "r">>,
         <<"l", "i", "s", "t", "e", "n">>, <<"l", "o", "u", "d">>,
         <<"m", "o", "d", "e", "r", "a", "t", "e">>,
         <<"m", "u", "t", "e", "d">>, <<"n", "o", "i", "s", "e">>,
         <<"p", "i", "e", "r", "c", "i", "n", "g">>,
         <<"q", "u", "i", "e", "t">>,
         <<"r", "e", "s", "o", "n", "a", "n", "t">>, <<"r", "i", "n", "g">>,
         <<"s", "c", "r", "e", "a", "m">>, <<"s", "h", "o", "u", "t">>,
         <<"s", "i", "l", "e", "n", "c", "e">>, <<"s", "o", "f", "t">>,
         <<"s", "o", "u", "n", "d">>, <<"t", "o", "n", "e">>,
         <<"v", "o", "i", "c", "e">>, <<"w", "h", "i", "s", "p", "e", "r">>}
    ELSE IF modality = "smell" THEN
        {<<"a", "r", "o", "m", "a">>, <<"f", "a", "i", "n", "t">>,
         <<"f", "r", "a", "g", "r", "a", "n", "c", "e">>,
         <<"f", "r", "a", "g", "r", "a", "n", "t">>,
         <<"i", "n", "h", "a", "l", "e">>, <<"m", "u", "s", "t", "y">>,
         <<"n", "o", "t", "i", "c", "e", "a", "b", "l", "e">>,
         <<"o", "d", "o", "r">>,
         <<"o", "v", "e", "r", "p", "o", "w", "e", "r", "i", "n", "g">>,
         <<"p", "u", "n", "g", "e", "n", "t">>, <<"r", "e", "e", "k">>,
         <<"s", "c", "e", "n", "t">>, <<"s", "m", "e", "l", "l">>,
         <<"s", "n", "i", "f", "f">>, <<"s", "n", "i", "f", "f", "l", "e">>,
         <<"s", "t", "r", "o", "n", "g">>,
         <<"s", "w", "e", "e", "t", "-", "s", "m", "e", "l", "l", "i", "n", "g">>}
    ELSE IF modality = "taste" THEN
        {<<"b", "i", "t", "t", "e", "r">>, <<"c", "h", "e", "w">>,
         <<"f", "l", "a", "v", "o", "r">>,
         <<"f", "l", "a", "v", "o", "u", "r">>, <<"m", "i", "l", "d">>,
         <<"o", "v", "e", "r", "p", "o", "w", "e", "r", "i", "n", "g">>,
         <<"s", "a", "l", "t", "y">>, <<"s", "a", "v", "o", "r">>,
         <<"s", "a", "v", "o", "r", "y">>, <<"s", "i", "p">>,
         <<"s", "o", "u", "r">>, <<"s", "p", "i", "c", "y">>,
         <<"s", "t", "r", "o", "n", "g">>, <<"s", "w", "e", "e", "t">>,
         <<"t", "a", "n", "g", "y">>, <<"t", "a", "s", "t", "e">>}
    ELSE IF modality = "touch" THEN
        {<<"b", "r", "u", "s", "h">>, <<"c", "o", "a", "r", "s", "e">>,
         <<"c", "o", "l", "d">>, <<"f", "e", "e", "l">>,
         <<"f", "i", "r", "m">>, <<"f", "o", "r", "c", "e", "f", "u", "l">>,
         <<"g", "e", "n", "t", "l", "e">>, <<"g", "r", "a", "z", "e">>,
         <<"l", "i", "g", "h", "t">>, <<"r", "o", "u", "g", "h">>,
         <<"s", "i", "l", "k", "y">>, <<"s", "m", "o", "o", "t", "h">>,
         <<"s", "o", "f", "t">>, <<"s", "t", "i", "c", "k", "y">>,
         <<"t", "e", "x", "t", "u", "r", "e">>, <<"t", "o", "u", "c", "h">>,
         <<"w", "a", "r", "m">>}
    ELSE
        {<<"a", "n", "a", "l", "o", "g", "o", "u", "s">>, <<"a", "s">>,
         <<"c", "o", "m", "p", "l", "e", "t", "e", "l", "y">>,
         <<"f", "e", "e", "l", "s">>,
         <<"f", "i", "g", "u", "r", "a", "t", "i", "v", "e">>,
         <<"k", "i", "n", "d", " ", "o", "f">>, <<"l", "i", "k", "e">>,
         <<"m", "e", "t", "a", "p", "h", "o", "r", "i", "c", "a", "l">>,
         <<"r", "e", "s", "e", "m", "b", "l", "e", "s">>,
         <<"s", "e", "e", "m", "s">>,
         <<"s", "l", "i", "g", "h", "t", "l", "y">>,
         <<"s", "m", "e", "l", "l", "s", " ", "l", "i", "k", "e">>,
         <<"t", "a", "s", "t", "e", "s", " ", "l", "i", "k", "e">>,
         <<"v", "e", "r", "y">>}

\* SENSORY_TAXONOMY[modality]["adjectives"][:3]
LeadingAdjectives(modality) ==
    IF modality = "vision" THEN
        {<<"v", "i", "s", "i", "b", "l", "e">>,
         <<"b", "l", "i", "n", "d", "i", "n", "g">>,
         <<"d", "a", "z", "z", "l", "i", "n", "g">>}
    ELSE IF modality = "hearing" THEN
        {<<"l", "o", "u", "d">>, <<"q", "u", "i", "e", "t">>,
         <<"d", "e", "a", "f", "e", "n", "i", "n", "g">>}
    ELSE IF modality = "smell" THEN
        {<<"f", "r", "a", "g", "r", "a", "n", "t">>,
         <<"p", "u", "n", "g", "e", "n", "t">>, <<"m", "u", "s", "t", "y">>}
    ELSE IF modality = "taste" THEN
        {<<"s", "w", "e", "e", "t">>, <<"s", "o", "u", "r">>,
         <<"b", "i", "t", "t", "e", "r">>}
    ELSE IF modality = "touch" THEN
        {<<"s", "o", "f", "t">>, <<"r", "o", "u", "g", "h">>,
         <<"c", "o", "a", "r", "s", "e">>}
    ELSE
        {<<"m", "e", "t", "a", "p", "h", "o", "r", "i", "c", "a", "l">>,
         <<"f", "i", "g", "u", "r", "a", "t", "i", "v", "e">>,
         <<"a", "n", "a", "l", "o", "g", "o", "u", "s">>}

\* the diminutives and the common_suffixes of LANGUAGE_VARIANTS[language]
VariantSuffixes(language) ==
    IF language = "en" THEN
        {<<"-", "l", "e", "t">>, <<"-", "l", "i", "n", "g">>,
         <<"-", "i", "s", "h">>, <<"-", "y">>}
    ELSE IF language = "es" THEN
        {<<"-", "i", "t", "o">>, <<"-", "i", "t", "a">>,
         <<"-", "o", "s", "o">>, <<"-", "o", "s", "a">>}
    ELSE IF language = "fr" THEN
        {<<"-", "e", "t", "t", "e">>, <<"-", "e", "u", "x">>,
         <<"-", "e", "u", "s", "e">>}
    ELSE
        {<<"-", "c", "h", "e", "n">>, <<"-", "l", "e", "i", "n">>,
         <<"-", "i", "g">>, <<"-", "l", "i", "c", "h">>}

\* a character of \W: over this alphabet, all but the letters
NonWord(c) == c = Space \/ c = Hyphen

\* re.sub(r"^\W+|\W+$", "", s)
RECURSIVE LStripNonWord(_)
LStripNonWord(s) == IF s # <<>> /\ NonWord(Head(s)) THEN LStripNonWord(Tail(s)) ELSE s

RECURSIVE RStripNonWord(_)
RStripNonWord(s) ==
    IF s # <<>> /\ NonWord(s[Len(s)]) THEN RStripNonWord(SubSeq(s, 1, Len(s) - 1))
    ELSE s

\* _normalize(token), and taxonomy._normalize_token(tok)
_normalize(token) == LowerStr(RStripNonWord(LStripNonWord(token)))

\* get_all_sensory_keywords(language)[modality], as a set
KeywordsOf(language, modality) ==
    TaxonomyWords(modality)
    \cup {_normalize(adj \o suf) : adj \in LeadingAdjectives(modality),
                                  suf \in VariantSuffixes(language)}

\* the modalities of SENSORY_TAXONOMY in declaration order
TaxonomyModalities == <<"vision", "hearing", "smell", "taste", "touch", "cross_sensory">>

\* s.endswith(suffix)
EndsWith(s, suffix) ==
    Len(s) >= Len(suffix) /\ SubSeq(s, Len(s) - Len(suffix) + 1, Len(s)) = suffix

\* s[:-n]
DropLast(s, n) == SubSeq(s, 1, Len(s) - n)

\* _simple_lemmatize(token)
_simple_lemmatize(token) ==
    LET t == LowerStr(token)
    IN  IF EndsWith(t, <<"i", "e", "s">>) THEN DropLast(t, 3) \o <<"y">>
        ELSE IF EndsWith(t, <<"s">>) /\ ~EndsWith(t, <<"s", "s">>) THEN DropLast(t, 1)
        ELSE IF EndsWith(t, <<"e", "d">>) THEN DropLast(t, 2)
        ELSE IF EndsWith(t, <<"i", "n", "g">>) THEN DropLast(t, 3)
        ELSE t

\* taxonomy.get_intensity_level(token): the level and its score in tenths
get_intensity_level(token) ==
    LET t == _normalize(token)
    IN  IF t \in {<<"f", "a", "i", "n", "t">>, <<"m", "i", "l", "d">>, <<"s", "l", "i", "g", "h", "t", "l", "y">>, <<"l", "i", "g", "h", "t">>}
        THEN [level |-> "low", score |-> 2]
        ELSE IF t \in {<<"s", "t", "r", "o", "n", "g">>,
                    <<"i", "n", "t", "e", "n", "s", "e">>,
                    <<"v", "e", "r", "y">>,
                    <<"p", "i", "e", "r", "c", "i", "n", "g">>,
                    <<"b", "l", "i", "n", "d", "i", "n", "g">>}
        THEN [level |-> "high", score |-> 8]
        ELSE IF t \in {<<"o", "v", "e", "r", "p", "o", "w", "e", "r", "i", "n", "g">>,
                    <<"d", "e", "a", "f", "e", "n", "i", "n", "g">>,
                    <<"e", "x", "p", "l", "o", "s", "i", "v", "e">>}
        THEN [level |-> "very_high", score |-> 10]
        ELSE [level |-> "medium", score |-> 5]

\* the (phrase, implied modality) records of IDIOMS
IDIOMS ==
    <<[idiom |-> <<"a", "s", " ", "c", "l", "e", "a", "r", " ", "a", "s", " ", "d", "a", "y">>,
       modality |-> "vision"],
      [idiom |-> <<"a", " ", "s", "l", "a", "p", " ", "i", "n", " ", "t", "h", "e", " ", "f", "a", "c", "e">>,
       modality |-> "touch"],
      [idiom |-> <<"m", "u", "s", "i", "c", " ", "t", "o", " ", "m", "y", " ", "e", "a", "r", "s">>,
       modality |-> "hearing"],
      [idiom |-> <<"s", "m", "e", "l", "l", "s", " ", "f", "i", "s", "h", "y">>,
       modality |-> "smell"]>>

\* s.find(sub), counted from 0, for a sub that occurs in s
Find(s, sub) == (CHOOSE k \in 1..(Len(s) + 1) :
                    /\ MatchesAt(s, k, sub)
                    /\ \A j \in 1..(k - 1) : ~MatchesAt(s, j, sub)) - 1

\* a detection span: confidence in units of 1e-4; the intensity is the score
\* in tenths of the (level, score) pair, and the key is left out for None
DetectedSpan(modality, token, start, end, conf, intensity, culture) ==
    LET sp == [modality |-> modality, token |-> token, start_char |-> start,
               end_char |-> end, confidence |-> conf, culture |-> culture]
    IN  IF intensity = 0 THEN sp
        ELSE [k \in DOMAIN sp \cup {"intensity"} |->
                IF k = "intensity" THEN intensity ELSE sp[k]]

\* lines 116-135: the spans of the idioms text.lower() contains, each with
\* min(1.0, 0.75 * emphasis)
RECURSIVE IdiomSpansFrom(_, _, _)
IdiomSpansFrom(text, culture, k) ==
    IF k > Len(IDIOMS) THEN <<>>
    ELSE (IF SubText(IDIOMS[k].idiom, LowerStr(text))
          THEN LET start == Find(LowerStr(text), IDIOMS[k].idiom)
                   end == start + Len(IDIOMS[k].idiom)
               IN  <<DetectedSpan(IDIOMS[k].modality, SubSeq(text, start + 1, end), start, end,
                          Min2(10000, (3 * get_cultural_emphasis(culture, IDIOMS[k].modality)) \div 4),
                          0, culture)>>
          ELSE <<>>)
         \o IdiomSpansFrom(text, culture, k + 1)

\* _simple_tokenize from position k on, cur being the token that began at
\* start: the (token, start_char, end_char) triples of re.finditer(r"\S+")
RECURSIVE TokenizeFrom(_, _, _, _)
TokenizeFrom(s, k, cur, start) ==
    IF k > Len(s)
    THEN (IF cur = <<>> THEN <<>> ELSE <<[tok |-> cur, schar |-> start, echar |-> k - 1]>>)
    ELSE IF s[k] = Space
         THEN (IF cur = <<>> THEN <<>> ELSE <<[tok |-> cur, schar |-> start, echar |-> k - 1]>>)
              \o TokenizeFrom(s, k + 1, <<>>, k)
         ELSE TokenizeFrom(s, k + 1, Append(cur, s[k]), start)

_simple_tokenize(s) == TokenizeFrom(s, 1, <<>>, 0)

\* the default of the window argument
Window == 3

\* lines 160-168: the intensity (its score, 0 for None) the context of token
\* i ends with and the confidence boost in units of 1e-4, read from the
\* j-th token of the window on
RECURSIVE ContextFrom(_, _, _, _)
ContextFrom(norms, j, last, acc) ==
    IF j > last THEN acc
    ELSE LET lv == get_intensity_level(norms[j])
         IN  ContextFrom(norms, j + 1, last,
                IF lv.level # "medium"
                THEN [intensity |-> lv.score, conf_boost |-> Max2(acc.conf_boost, lv.score * 150)]
                ELSE acc)

\* lines 143-197 for token i: the spans the token loop appends for it
TokenSpans(tokens, i, language, culture) ==
    LET norms == [k \in DOMAIN tokens |-> _normalize(tokens[k].tok)]
        norm == norms[i]
        lemma == _simple_lemmatize(norm)
        keyword_map == [m \in TaxonomyNames |-> KeywordsOf(language, m)]
        lexical == SelectSeq(TaxonomyModalities,
                       LAMBDA m : norm \in keyword_map[m] \/ lemma \in keyword_map[m])
        ctx == ContextFrom(norms, Max2(1, i - Window), Min2(Len(tokens), i + Window),
                           [intensity |-> 0, conf_boost |-> 0])
        two_tok == IF i < Len(tokens) THEN norm \o <<Space>> \o norms[i + 1] ELSE <<>>
        matched == IF two_tok \in keyword_map["cross_sensory"]
                   THEN <<"cross_sensory">> ELSE lexical
    IN  IF norm = <<>> THEN <<>>
        ELSE [k \in DOMAIN matched |->
                DetectedSpan(matched[k], tokens[i].tok, tokens[i].schar, tokens[i].echar,
                     Min2(10000, get_cultural_emphasis(culture, matched[k]) \div 2
                                 + ctx.conf_boost),
                     ctx.intensity, culture)]

\* the spans of the token loop from token i on
RECURSIVE TokenSpansFrom(_, _, _, _)
TokenSpansFrom(tokens, i, language, culture) ==
    IF i > Len(tokens) THEN <<>>
    ELSE TokenSpans(tokens, i, language, culture)
         \o TokenSpansFrom(tokens, i + 1, language, culture)

\* detect_sensory_spans(text, language, culture) for a supported language
detect_sensory_spans(text, language, culture) ==
    _resolve_overlaps(IdiomSpansFrom(text, culture, 1)
                      \o TokenSpansFrom(_simple_tokenize(text), 1, language, culture))

\* the strategies score_sensory_difficulty knows
Strategies == {"simple", "contextual", "weighted", "conservative"}

\* span.get("intensity")[1] in tenths, 0 when the span has no intensity
IntensityScore(span) == IF "intensity" \in DOMAIN span THEN span.intensity ELSE 0

\* _clamp01 of a value in units of 1e-9
ClampNano(x) == Max2(0, Min2(1000000000, x))

\* the raw score of one span in units of 1e-9 (lines 62-90): the
\* sensitivity is read from fingerprint.data in twentieths (0.0 when the
\* argument has no .data), the detector confidence and the cultural emphasis
\* in units of 1e-4; no preferences entry of the fingerprints used here is
\* keyed by a modality, so user_pref is 0.0
RawScore(span, fp, strategy) ==
    LET base_sensitivity == IF HasData(fp) /\ span.modality \in ModalitySet
                            THEN GetMod(fp.data, span.modality) ELSE 0
        user_pref        == 0
        intensity_score  == IntensityScore(span)
        cultural_emph    == get_cultural_emphasis(span.culture, span.modality)
    IN  CASE strategy = "simple" ->
                 25000000 * base_sensitivity + 50000000 * intensity_score
          [] strategy = "contextual" ->
                 20000000 * base_sensitivity + 40000000 * intensity_score
                 + 2 * span.confidence * cultural_emph
          [] strategy = "weighted" ->
                 15000000 * base_sensitivity + 500000000 * user_pref
                 + 2000 * intensity_score * cultural_emph
          [] OTHER ->
                 Max2(35000000 * base_sensitivity, 60000000 * intensity_score)

\* the scoring of the span raises inside the try block of line 60: the
\* ValueError of line 92 for an unknown strategy, or the ValueError of
\* float(span.get("confidence", 0.5)) at line 99 (line 83 under the
\* contextual strategy) for a span whose confidence is not a number
ScoringRaises(span, strategy) ==
    strategy \notin Strategies \/ "confidence" \notin DOMAIN span

\* the record appended for one span: the scored record of lines 108-117, or
\* the zero record of line 120 when the scoring raised
ScoreRecord(span, fp, strategy) ==
    IF ScoringRaises(span, strategy)
    THEN [modality |-> span.modality, token |-> span.token,
          raw_score |-> 0, score |-> 0, confidence |-> 0, strategy |-> strategy]
    ELSE [modality |-> span.modality, token |-> span.token,
          raw_score |-> RawScore(span, fp, strategy),
          score |-> ClampNano(RawScore(span, fp, strategy)),
          confidence |-> Max2(0, Min2(10000, span.confidence)),
          strategy |-> strategy]

\* the loop abandoned at the first span whose scoring raises
RECURSIVE score_sensory_difficulty_aborting(_, _, _)
score_sensory_difficulty_aborting(spans, fp, strategy) ==
    IF spans = <<>> \/ ScoringRaises(Head(spans), strategy) THEN <<>>
    ELSE <<ScoreRecord(Head(spans), fp, strategy)>>
         \o score_sensory_difficulty_aborting(Tail(spans), fp, strategy)

\* score_sensory_difficulty(sensory_spans, fingerprint, strategy): one
\* record per span, in order; an exception raised while a span is scored is
\* caught by the except clause of line 118, which appends the zero record.
\* Scores are in units of 1e-9, confidences in units of 1e-4; no calibration
\* is passed.
score_sensory_difficulty(spans, fp, strategy) ==
    [k \in 1..Len(spans) |-> ScoreRecord(spans[k], fp, strategy)]

\* traverse_stg(span, fingerprint) raises: user_profile = fingerprint or {}
\* is asked for .get outside the try block (lines 122-124)
TraverseRaises(fp) == Truthy(fp) /\ ~HasGet(fp)

\* apply_multisensory_reasoning(span, [], fingerprint) on the empty graph the
\* pipeline builds: the literal token (0.8) and the descriptive phrase (0.7),
\* both dicts; the engine reads the first
Alternatives(span) == <<DictAlt(span.token), DictAlt(span.token \o <<Space>>)>>

(***************************************************************************)
(* State.                                                                  *)
(*   saf      the fingerprint object under observation                     *)
(*   prev     the same object before the last operation                    *)
(*   lastOp   the last operation, its inputs and whether it raised         *)
(*   rt       the result of the last from_dict(saf.to_dict())              *)
(*   clock    time.time(), advanced by every operation that reads it       *)
(*   files    FileStorage: the content of each <key>.json                  *)
(*   pc       position of each AgenticMemory caller                        *)
(*   local    the local variables of each AgenticMemory caller             *)
(*   loaded   what the reader's load_fingerprint calls returned            *)
(*   cand     the candidate spans handed to _resolve_overlaps              *)
(*   resolved what _resolve_overlaps returned for them                     *)
(*   cache    rewrite_engine._REWRITE_CACHE                                *)
(*   run      the run_rewrite_pipeline call in progress, its locals        *)
(*   ret      what the last validate_rewrites / generate_rewrites returned *)
(*   calls    number of calls started on the rewrite side                  *)
(*   sel      a select_rewrite_strategy call: its argument and result      *)
(*   sc       a score_sensory_difficulty call: its arguments and result    *)
(*   stg      a dijkstra_paths / traverse_stg call in progress             *)
(*   disp     a remote-capable dispatch in progress                        *)
(*   rag      a retrieve_cultural_metaphors call in progress               *)
(*   det      a detect_sensory_spans call: its arguments and result        *)
(***************************************************************************)
VARIABLES saf, prev, lastOp, rt, clock, files, pc, local, loaded, cand, resolved,
          cache, run, ret, calls, sel, sc, stg, disp, rag, det

safVars == <<saf, prev, lastOp, rt>>

memVars == <<files, pc, local, loaded>>

roVars == <<cand, resolved>>

rwVars == <<cache, run, ret, calls>>

fnVars == <<sel, sc, stg, disp, rag, det>>

vars == <<saf, prev, lastOp, rt, clock, files, pc, local, loaded, cand, resolved,
          cache, run, ret, calls, sel, sc, stg, disp, rag, det>>

\* no call is in progress
NoCall == [pc |-> "idle"]

SelQuiet == sel = NoCall

ScQuiet == sc = NoCall

StgQuiet == stg = NoCall

DispQuiet == disp = NoCall

RagQuiet == rag = NoCall

DetQuiet == det = NoCall

FnQuiet == SelQuiet /\ ScQuiet /\ StgQuiet /\ DispQuiet /\ RagQuiet /\ DetQuiet

(***************************************************************************)
(* Inputs of the fingerprint operations.                                   *)
(***************************************************************************)
Feedback(action, modality, magKind, magnitude, lmfKind, lmf, gmfKind, gmf) ==
    [action |-> action, modality |-> modality, magKind |-> magKind,
     magnitude |-> magnitude, lmfKind |-> lmfKind, lmf |-> lmf,
     gmfKind |-> gmfKind, gmf |-> gmf]

NoFeedback == Feedback("", "none", "absent", 0, "absent", 0, "absent", 0)

\* feedback payloads paired with a learning rate in twentieths
\* (1 is the default 0.05, 2 is 0.1, 20 is 1.0)
FeedbackCalls ==
    { <<Feedback("Accept", "vision", "absent", 0, "num", 14, "absent", 0), 2>>,
      <<Feedback("reject", "none", "num", 1, "absent", 0, "num", 30), 20>>,
      <<Feedback("edit", "cross_sensory", "num", 1, "absent", 0, "absent", 0), 1>>,
      <<Feedback("accept", "none", "num", -1, "absent", 0, "absent", 0), 20>>,
      <<Feedback("worsen", "vision", "num", 1, "absent", 0, "absent", 0), 20>>,
      <<Feedback("sensitivity_inc", "touch", "absent", 0, "absent", 0, "absent", 0), 1>>,
      <<Feedback("improve", "vision", "num", 1, "absent", 0, "absent", 0), 1>>,
      <<Feedback("sensitivity_dec", "touch", "num", 2, "absent", 0, "absent", 0), 20>>,
      <<Feedback("worsen", "hearing", "num", -1, "bad", 0, "absent", 0), 20>>,
      <<Feedback("accept", "vision", "absent", 0, "absent", 0, "bad", 0), 1>>,
      <<Feedback("reject", "none", "bad", 0, "absent", 0, "absent", 0), 1>>,
      <<Feedback("", "taste", "absent", 0, "absent", 0, "absent", 0), 1>> }

\* (modality, delta) arguments of adjust_modality_sensitivity
AdjustCalls == { <<"hearing", 30>>, <<"touch", -10>>, <<"cross_sensory", 5>> }

\* events handed to record_interaction, with and without a timestamp
InteractionEvents == { Event("view", "", "none", 0, 0), Event("click", "", "none", 0, 1) }

\* a history of n stored events
StoredHistory(n) == [i \in 1..n |-> Event("view", "", "none", 0, i)]

\* data maps a caller or a stored file can hold
SkewedData ==
    [DefaultData EXCEPT !.rw = [k \in StrategyKeys |-> IF k = "rewrite_minimal" THEN 18 ELSE 1],
                        !.rwd = 20]

RawData ==
    [DefaultData EXCEPT !.mod["vision"] = 30, !.mod["smell"] = -5,
                        !.rw = [k \in StrategyKeys |-> 1], !.rwd = 1]

FlatData == [EmptyData EXCEPT !.keys = {"vision"}, !.mod["vision"] = 10]

Wrapped(data, prefs, history, version) ==
    [kind |-> "wrapped", data |-> data, preferences |-> prefs, history |-> history,
     version |-> version]

\* payloads handed to from_dict
Payloads ==
    { NonePayload,
      [NonePayload EXCEPT !.kind = "flat", !.data = FlatData],
      Wrapped(SkewedData, {<<"theme", "dark">>}, StoredHistory(1), 2),
      Wrapped(RawData, {}, <<>>, 1),
      Wrapped(EmptyData, {}, <<>>, 1),
      Wrapped(DefaultData, {}, StoredHistory(HistoryCap + 1), 1) }

\* fingerprints built directly with the dataclass constructor
Constructed ==
    { DefaultSAF,
      [DefaultSAF EXCEPT !.data = EmptyData],
      [DefaultSAF EXCEPT !.data = RawData, !.preferences = {<<"theme", "dark">>}, !.version = 2] }

Op(op, raised, fb, lr) == [op |-> op, raised |-> raised, fb |-> fb, lr |-> lr]

NoRt == [done |-> FALSE, res |-> DefaultSAF]

\* the fingerprint side before anything has been built on it
SafQuiet ==
    /\ saf = DefaultSAF
    /\ prev = DefaultSAF
    /\ lastOp = Op("init", FALSE, NoFeedback, 0)
    /\ rt = NoRt

\* every operation advances the clock and remembers the object it started from
Step(op, raised, fb, lr) ==
    /\ clock <= MaxOps
    /\ clock' = clock + 1
    /\ prev' = saf
    /\ lastOp' = Op(op, raised, fb, lr)
    /\ UNCHANGED <<memVars, roVars, rwVars, fnVars>>

\* saf.validate() (also reached through get_rewrite_strategy_probs)
Validate ==
    /\ CanValidate(saf)
    /\ Step("validate", FALSE, NoFeedback, 0)
    /\ saf' = validate(saf)
    /\ UNCHANGED rt

\* saf = SensoryAccessibilityFingerprint.from_dict(payload)
FromDict ==
    \E p \in Payloads :
        /\ Step("from_dict", FALSE, NoFeedback, 0)
        /\ saf' = from_dict(p)
        /\ UNCHANGED rt

\* saf.record_interaction(event)
RecordInteraction ==
    \E e \in InteractionEvents :
        /\ Step("record_interaction", FALSE, NoFeedback, 0)
        /\ saf' = record_interaction(saf, e, clock)
        /\ UNCHANGED rt

\* saf.update_from_feedback(feedback, learning_rate)
UpdateFromFeedback ==
    \E c \in FeedbackCalls :
        LET r == update_from_feedback(saf, c[1], c[2], clock)
        IN  /\ CanUpdate(saf, c[1], c[2])
            /\ Step("update_from_feedback", r.raised, c[1], c[2])
            /\ saf' = r.saf
            /\ UNCHANGED rt

\* saf.adjust_modality_sensitivity(modality, delta)
AdjustModalitySensitivity ==
    \E c \in AdjustCalls :
        LET r == adjust_modality_sensitivity(saf, c[1], c[2])
        IN  /\ Step("adjust_modality_sensitivity", r.raised,
                    [NoFeedback EXCEPT !.modality = c[1], !.magnitude = c[2]], 0)
            /\ saf' = r.saf
            /\ UNCHANGED rt

\* rt = SensoryAccessibilityFingerprint.from_dict(saf.to_dict())
RoundTrip ==
    /\ CanValidate(saf)
    /\ Step("round_trip", FALSE, NoFeedback, 0)
    /\ rt' = [done |-> TRUE, res |-> from_dict(to_dict(saf))]
    /\ UNCHANGED saf

(***************************************************************************)
(* AgenticMemory callers over one FileStorage directory.  The creator runs *)
(* create_user for "u1", two updaters run update_from_feedback for "u1"    *)
(* with no lock between them (there is none in the code), and a reader     *)
(* calls load_fingerprint; "u2" is a user id nothing was ever stored for.  *)
(***************************************************************************)
Users == {"u1", "u2"}

Updaters == {"w1", "w2"}

Procs == {"creator", "reader"} \cup Updaters

\* the key <user_id> and the key <user_id>__interactions
FpKey(u) == <<u, "saf">>

LogKey(u) == <<u, "interactions">>

FileKeys == {FpKey(u) : u \in Users} \cup {LogKey(u) : u \in Users}

\* a complete file holding a fingerprint payload / an interaction list
FpFile(payload) == [state |-> "ok", saf |-> payload, log |-> <<>>]

LogFile(logs) == [state |-> "ok", saf |-> NonePayload, log |-> logs]

\* the `initial` argument of create_user: None, or a stored profile
CreateInitials == { NonePayload, Wrapped(SkewedData, {}, <<>>, 1) }

\* the feedback each updater submits, with its learning rate
UpdaterCalls(w) ==
    IF w = "w1"
    THEN { <<Feedback("worsen", "vision", "num", 1, "absent", 0, "absent", 0), 2>>,
           <<Feedback("accept", "vision", "absent", 0, "absent", 0, "absent", 0), 1>> }
    ELSE { <<Feedback("worsen", "hearing", "num", 2, "absent", 0, "absent", 0), 2>> }

\* initial is the `initial` argument create_user was given
NoLocal ==
    [fb |-> NoFeedback, lr |-> 0, fp |-> DefaultSAF, logs |-> <<>>, initial |-> NonePayload]

\* at is where every caller stood when the reader loaded
NoLoaded ==
    [done |-> FALSE, raised |-> FALSE, fp |-> DefaultSAF, at |-> [p \in Procs |-> "idle"]]

MemQuiet ==
    /\ files = [k \in FileKeys |-> AbsentFile]
    /\ pc = [p \in Procs |-> "idle"]
    /\ local = [p \in Procs |-> NoLocal]
    /\ loaded = [u \in Users |-> NoLoaded]

\* the first half of FileStorage.save: open(path, "w") truncates the file
Open(k) == files' = [files EXCEPT ![k] = TruncatedFile]

\* the second half: json.dump(value, f).  When another handle has written
\* the file since this one truncated it, the bytes of the two dumps share
\* the file and it holds either this value or no parseable JSON.
Dump(k, file) ==
    \/ files' = [files EXCEPT ![k] = file]
    \/ /\ files[k].state = "ok"
       /\ files' = [files EXCEPT ![k] = TruncatedFile]

Goto(p, label) == pc' = [pc EXCEPT ![p] = label]

\* create_user("u1", initial), lines 32-34: build the fingerprint, open <uid>.json
CreateUser ==
    \E initial \in CreateInitials :
        /\ pc["creator"] = "idle"
        /\ \A w \in Updaters : pc[w] = "idle"
        /\ local' = [local EXCEPT !["creator"].fp = from_dict(initial),
                                   !["creator"].initial = initial]
        /\ Open(FpKey("u1"))
        /\ Goto("creator", "dump_fp")
        /\ UNCHANGED <<loaded, clock, safVars, roVars, rwVars, fnVars>>

\* line 34, second half: json.dump(saf.to_dict())
CreateDumpFp ==
    /\ pc["creator"] = "dump_fp"
    /\ Dump(FpKey("u1"), FpFile(to_dict(local["creator"].fp)))
    /\ Goto("creator", "open_log")
    /\ UNCHANGED <<local, loaded, clock, safVars, roVars, rwVars, fnVars>>

\* line 36: storage.save(f"{uid}__interactions", [])
CreateOpenLog ==
    /\ pc["creator"] = "open_log"
    /\ Open(LogKey("u1"))
    /\ Goto("creator", "dump_log")
    /\ UNCHANGED <<local, loaded, clock, safVars, roVars, rwVars, fnVars>>

CreateDumpLog ==
    /\ pc["creator"] = "dump_log"
    /\ Dump(LogKey("u1"), LogFile(<<>>))
    /\ Goto("creator", "done")
    /\ UNCHANGED <<local, loaded, clock, safVars, roVars, rwVars, fnVars>>

\* update_from_feedback("u1", feedback, learning_rate), lines 93-94:
\* load_fingerprint, then the in-memory update of the loaded object
UpdateLoad(w) ==
    \E c \in UpdaterCalls(w) :
        LET r == load_fingerprint(files[FpKey("u1")])
        IN  /\ pc[w] = "idle"
            /\ pc["creator"] \in {"idle", "done"}
            /\ IF r.raised
               THEN /\ Goto(w, "failed")
                    /\ local' = [local EXCEPT ![w].fb = c[1], ![w].lr = c[2]]
               ELSE /\ Goto(w, "open_fp")
                    /\ local' = [local EXCEPT ![w].fb = c[1], ![w].lr = c[2],
                                   ![w].fp = update_from_feedback(r.fp, c[1], c[2], clock).saf]
            /\ clock' = clock + 1
            /\ UNCHANGED <<files, loaded, safVars, roVars, rwVars, fnVars>>

\* line 95, save_fingerprint: open, then dump
UpdateOpenFp(w) ==
    /\ pc[w] = "open_fp"
    /\ Open(FpKey("u1"))
    /\ Goto(w, "dump_fp")
    /\ UNCHANGED <<local, loaded, clock, safVars, roVars, rwVars, fnVars>>

UpdateDumpFp(w) ==
    /\ pc[w] = "dump_fp"
    /\ Dump(FpKey("u1"), FpFile(to_dict(local[w].fp)))
    /\ Goto(w, "load_log")
    /\ UNCHANGED <<local, loaded, clock, safVars, roVars, rwVars, fnVars>>

\* line 97, log_interaction: logs = storage.load(key) or []; append; bound
UpdateLoadLog(w) ==
    LET r == load(files[LogKey("u1")])
    IN  /\ pc[w] = "load_log"
        /\ IF r.raised
           THEN /\ Goto(w, "failed")
                /\ UNCHANGED local
           ELSE /\ Goto(w, "open_log")
                /\ local' = [local EXCEPT ![w].logs =
                                log_interaction(r.value.log,
                                                [type |-> "feedback", payload |-> local[w].fb])]
        /\ UNCHANGED <<files, loaded, clock, safVars, roVars, rwVars, fnVars>>

UpdateOpenLog(w) ==
    /\ pc[w] = "open_log"
    /\ Open(LogKey("u1"))
    /\ Goto(w, "dump_log")
    /\ UNCHANGED <<local, loaded, clock, safVars, roVars, rwVars, fnVars>>

UpdateDumpLog(w) ==
    /\ pc[w] = "dump_log"
    /\ Dump(LogKey("u1"), LogFile(local[w].logs))
    /\ Goto(w, "done")
    /\ UNCHANGED <<local, loaded, clock, safVars, roVars, rwVars, fnVars>>

\* the reader's load_fingerprint(u), once per user id
LoadFingerprint ==
    \E u \in Users :
        LET r == load_fingerprint(files[FpKey(u)])
        IN  /\ ~loaded[u].done
            /\ loaded' = [loaded EXCEPT ![u] = [done |-> TRUE, raised |-> r.raised, fp |-> r.fp,
                                              at |-> pc]]
            /\ UNCHANGED <<files, pc, local, clock, safVars, roVars, rwVars, fnVars>>

MemNext ==
    \/ CreateUser
    \/ CreateDumpFp
    \/ CreateOpenLog
    \/ CreateDumpLog
    \/ \E w \in Updaters : UpdateLoad(w)
    \/ \E w \in Updaters : UpdateOpenFp(w)
    \/ \E w \in Updaters : UpdateDumpFp(w)
    \/ \E w \in Updaters : UpdateLoadLog(w)
    \/ \E w \in Updaters : UpdateOpenLog(w)
    \/ \E w \in Updaters : UpdateDumpLog(w)
    \/ LoadFingerprint

(***************************************************************************)
(* Overlap resolution on candidate span lists.                             *)
(***************************************************************************)
\* number of candidate spans in a list
MaxSpans == 3

\* character offsets of the candidate spans
Positions == 0..3

\* (modality, confidence in units of 1e-4) of a candidate: two modalities
\* can sit on the same token, an idiom span carries 0.9
SpanKinds == { <<"vision", 4500>>, <<"touch", 4500>>, <<"touch", 9000>> }

CandidateSpans ==
    { Span(k[1], r[1], r[2], k[2]) :
          k \in SpanKinds, r \in {x \in Positions \X Positions : x[1] < x[2]} }

NoResolved == [done |-> FALSE, spans |-> <<>>]

RoQuiet ==
    /\ cand = <<>>
    /\ resolved = NoResolved

\* resolved = _resolve_overlaps(cand)
ResolveOverlaps ==
    /\ ~resolved.done
    /\ resolved' = [done |-> TRUE, spans |-> _resolve_overlaps(cand)]
    /\ UNCHANGED <<cand, clock, safVars, memVars, rwVars, fnVars>>

(***************************************************************************)
(* The rewrite side: direct calls of validate_rewrites and                 *)
(* generate_rewrites, and run_rewrite_pipeline stage by stage, all in one  *)
(* interpreter and so against one _REWRITE_CACHE.                          *)
(***************************************************************************)
\* number of calls started
MaxCalls == 2

\* texts over the alphabet d, i, m, D and the space
TDim == <<"d", "i", "m">>

TCapDim == <<"D", "i", "m">>

TMid == <<"m", "i", "d">>

TDimMid == TDim \o <<Space>> \o TMid

TCapDimMid == TCapDim \o <<Space>> \o TMid

TDimDim == TDim \o <<Space>> \o TDim

TMidMid == TMid \o <<Space>> \o TMid

\* fingerprint arguments: the object f seen as an argument of the given kind
ObjFp(kind, f) ==
    [kind |-> kind, data |-> f.data, preferences |-> f.preferences,
     history |-> f.history, version |-> f.version]

SafFp(data) == ObjFp("saf", [DefaultSAF EXCEPT !.data = data])

ProfileFp(data) == ObjFp("profile", [DefaultSAF EXCEPT !.data = data])

DictFp == ObjFp("dict", [DefaultSAF EXCEPT !.data = EmptyData])

NoneFp == ObjFp("none", [DefaultSAF EXCEPT !.data = EmptyData])

\* a fingerprint that has been in use: preferences set, one event recorded
UsedSAF(data) ==
    [data |-> data, preferences |-> {<<"theme", "dark">>}, history |-> StoredHistory(1),
     version |-> 2]

\* (original, alternatives, threshold in tenths, preserve_entities)
ValidateCalls ==
    { <<TDimMid, <<TDimMid, TMidMid>>, 6, TRUE>>,
      <<TCapDimMid, <<TDimMid>>, 6, TRUE>>,
      <<TCapDimMid, <<TDimMid, TMid>>, 6, FALSE>>,
      <<TDimMid, <<>>, 6, TRUE>>,
      <<TDim, <<TMid, <<"m">>>>, 6, TRUE>>,
      <<TDimMid, <<TMidMid, TDimDim, TDim>>, 4, TRUE>> }

\* (text, candidates, fingerprint, strategy_override, validate)
RewriteCalls ==
    { <<TDimMid, <<Bundle(TDim, <<StrAlt(TMid)>>)>>, SafFp(DefaultData), "", TRUE>>,
      <<TDimMid, <<Bundle(TDim, <<StrAlt(TMid)>>)>>, SafFp(SkewedData), "", TRUE>>,
      <<TDimMid, <<Bundle(TDim, <<StrAlt(TMid)>>), Bundle(TMid, <<StrAlt(TDim)>>)>>,
        DictFp, "gentle", TRUE>>,
      <<TDimMid, <<Bundle(TMid, <<StrAlt(TDim)>>), Bundle(TDim, <<StrAlt(TMid)>>)>>,
        DictFp, "gentle", FALSE>>,
      <<TCapDimMid, <<Bundle(TCapDim, <<StrAlt(TDim), StrAlt(TMid)>>)>>, NoneFp, "full", TRUE>>,
      <<TCapDimMid, <<Bundle(TCapDim, <<StrAlt(TDim)>>)>>, NoneFp, "full", FALSE>>,
      <<TCapDimMid, <<Bundle(TCapDim, <<StrAlt(TDim)>>)>>, NoneFp, "gentle", TRUE>>,
      <<TDimMid, <<Bundle(<<"i">>, <<StrAlt(<<"m", "m">>)>>)>>, SafFp(DefaultData), "full", FALSE>>,
      <<TDim, <<Bundle(<<>>, <<StrAlt(<<"d">>)>>)>>, SafFp(EmptyData), "", FALSE>>,
      <<TDimMid, <<Bundle(TDim, <<>>)>>, SafFp(DefaultData), "gentle", TRUE>>,
      <<TDimMid, <<Bundle(TDim, <<StrAlt(TMid)>>)>>, DictFp, "", TRUE>>,
      <<TDimMid, <<Bundle(TDim, <<DictAlt(TMid)>>)>>, SafFp(DefaultData), "", TRUE>>,
      <<TDimMid, <<Bundle(TDim, <<DictAlt(TMid)>>)>>, SafFp(DefaultData), "minimal", TRUE>>,
      <<TDimDim, <<Bundle(TDim, <<DictAlt(TMid)>>), Bundle(TDim, <<StrAlt(TMid)>>)>>,
        SafFp(DefaultData), "minimal", TRUE>> }

\* (text, language, culture, fingerprint)
PipelineInputs ==
    { <<TDimMid, "en", "global", SafFp(DefaultData)>>,
      <<TMidMid, "en", "us", SafFp(DefaultData)>>,
      <<TMid, "fr", "jp", SafFp(SkewedData)>>,
      <<<<>>, "es", "mx", SafFp(EmptyData)>>,
      <<TDimMid, "zz", "global", SafFp(DefaultData)>>,
      <<TCapDimMid, "de", "xx", DictFp>>,
      <<TMid, "en", "global", DictFp>>,
      <<TDimDim, "en", "jp", NoneFp>>,
      <<TDimDim, "en", "jp", ProfileFp(SkewedData)>>,
      <<TCapDimMid, "en", "global", ProfileFp(DefaultData)>>,
      <<TCapDim \o <<Space>> \o TDim, "en", "global", ProfileFp(SkewedData)>>,
      <<TMid, "en", "global", ProfileFp(DefaultData)>>,
      <<TMidMid, "en", "global", ObjFp("saf", UsedSAF(SkewedData))>>,
      <<TDimMid, "en", "mx", ObjFp("profile", UsedSAF(SkewedData))>>,
      <<TDim, "en", "us", SafFp(SkewedData)>>,
      <<TDimMid, "zz", "us", ProfileFp(SkewedData)>> }

\* what a direct call returned, with the arguments it was given; generated
\* is the list of rewrites the call put up for validation
Returned(op, raised, hit, original, generated, tenths, preserve, validating, alternatives, strategy) ==
    [op |-> op, raised |-> raised, hit |-> hit, original |-> original,
     generated |-> generated, tenths |-> tenths, preserve |-> preserve,
     validating |-> validating, alternatives |-> alternatives, strategy |-> strategy]

NoRet == Returned("none", FALSE, FALSE, <<>>, <<>>, 0, FALSE, FALSE, <<>>, "")

NoResult == [original |-> <<>>, alternatives |-> <<>>, strategy |-> ""]

\* the locals of run_rewrite_pipeline; i counts the loop iterations done,
\* raisedAt names the stage whose exception reached the except clause; fp is
\* the caller's fingerprint object as it stands, entry its fields on entry
IdleRun ==
    [pc |-> "idle", text |-> <<>>, language |-> "", culture |-> "", fp |-> NoneFp,
     entry |-> NoneFp,
     sensory_spans |-> <<>>, difficulty_scores |-> <<>>, i |-> 0, candidates |-> <<>>,
     generated |-> <<>>, hit |-> FALSE,
     rewrite_candidates |-> [alternatives |-> <<>>, strategy |-> ""],
     raisedAt |-> "none", returned |-> FALSE, result |-> NoResult]

RwQuiet ==
    /\ cache = <<>>
    /\ run = IdleRun
    /\ ret = NoRet
    /\ calls = 0

\* no pipeline call is on the stack
AtTopLevel == run.pc \in {"idle", "done"}

\* constraints.validate_rewrites(original, {"alternatives": alts}, threshold,
\* preserve_entities=...) called directly
CallValidateRewrites ==
    \E c \in ValidateCalls :
        /\ AtTopLevel
        /\ calls < MaxCalls
        /\ calls' = calls + 1
        /\ ret' = Returned("validate_rewrites", FALSE, FALSE, c[1], c[2], c[3], c[4], FALSE,
                           validate_rewrites(c[1], c[2], c[3], c[4]), "")
        /\ UNCHANGED <<cache, run, clock, safVars, memVars, roVars, fnVars>>

\* generate_rewrites(text, candidates, fingerprint, strategy_override,
\* validate) called directly
CallGenerateRewrites ==
    \E c \in RewriteCalls :
        LET r == generate_rewrites(c[1], c[2], c[3], c[4], c[5], cache)
        IN  /\ AtTopLevel
            /\ calls < MaxCalls
            /\ calls' = calls + 1
            /\ ret' = Returned("generate_rewrites", r.raised, r.hit, c[1],
                               IF r.raised \/ r.hit THEN <<>>
                               ELSE Generated(c[1], ReplacementsFrom(c[2], 1), r.strategy),
                               4, TRUE, c[5], r.alternatives, r.strategy)
            /\ cache' = r.cache
            /\ UNCHANGED <<run, clock, safVars, memVars, roVars, fnVars>>

\* an except clause that hands back the text with nothing to show for it
Fallback_empty(text) == [original |-> text, alternatives |-> <<>>, strategy |-> "minimal"]

\* the value of the except clause (pipeline.py:52)
Fallback(text) == [original |-> text, alternatives |-> <<text>>, strategy |-> "minimal"]

\* `except Exception` (lines 49-52): the exception raised in stage is
\* logged and the fallback returned
Except(stage) ==
    run' = [run EXCEPT !.pc = "done", !.raisedAt = stage, !.returned = TRUE,
                       !.result = Fallback(run.text)]

\* run_rewrite_pipeline(text, language, culture, fingerprint) is entered
StartPipeline ==
    \E c \in PipelineInputs :
        /\ AtTopLevel
        /\ calls < MaxCalls
        /\ calls' = calls + 1
        /\ run' = [IdleRun EXCEPT !.pc = "detect", !.text = c[1], !.language = c[2],
                                  !.culture = c[3], !.fp = c[4], !.entry = c[4]]
        /\ UNCHANGED <<cache, ret, clock, safVars, memVars, roVars, fnVars>>

\* line 30: detect_sensory_spans raises ValueError for an unsupported language
Detect ==
    /\ run.pc = "detect"
    /\ IF run.language \notin LANGUAGE_VARIANTS
       THEN Except("detect")
       ELSE run' = [run EXCEPT !.pc = "score",
                               !.sensory_spans =
                                   detect_sensory_spans(run.text, run.language, run.culture)]
    /\ UNCHANGED <<cache, ret, calls, clock, safVars, memVars, roVars, fnVars>>

\* a scoring stage that notes each scored span in the fingerprint's history
Score_recording ==
    /\ run.pc = "score"
    /\ run' = [run EXCEPT !.pc = "loop",
                          !.difficulty_scores = score_sensory_difficulty(run.sensory_spans, run.fp, "contextual"),
                          !.fp.history = @ \o [k \in 1..Len(run.sensory_spans) |->
                                                  Event("score", "", "none", 0, k)]]
    /\ UNCHANGED <<cache, ret, calls, clock, safVars, memVars, roVars, fnVars>>

\* line 31: score_sensory_difficulty reads fingerprint.data and
\* fingerprint.preferences (zero_shot_scorer.py:62-63) and writes neither
Score ==
    /\ run.pc = "score"
    /\ run' = [run EXCEPT !.pc = "loop",
                          !.difficulty_scores = score_sensory_difficulty(run.sensory_spans, run.fp, "contextual")]
    /\ UNCHANGED <<cache, ret, calls, clock, safVars, memVars, roVars, fnVars>>

\* one iteration of the loop of lines 34-43: retrieval, traversal, reasoning,
\* and the candidate appended (its metaphors list is read by no later stage
\* and is left out)
SpanStep ==
    /\ run.pc = "loop"
    /\ run.i < Min2(Len(run.sensory_spans), Len(run.difficulty_scores))
    /\ LET span == run.sensory_spans[run.i + 1]
       IN  IF TraverseRaises(run.fp)
           THEN Except("traverse")
           ELSE run' = [run EXCEPT !.i = @ + 1,
                           !.candidates = Append(@, Bundle(span.token, Alternatives(span)))]
    /\ UNCHANGED <<cache, ret, calls, clock, safVars, memVars, roVars, fnVars>>

\* line 45: generate_rewrites(text, candidates, fingerprint)
Generate ==
    /\ run.pc = "loop"
    /\ run.i = Min2(Len(run.sensory_spans), Len(run.difficulty_scores))
    /\ LET r == generate_rewrites(run.text, run.candidates, run.fp, "", TRUE, cache)
       IN  IF r.raised
           THEN Except("generate") /\ UNCHANGED cache
           ELSE /\ run' = [run EXCEPT !.pc = "validate", !.hit = r.hit,
                              !.generated = IF r.hit THEN <<>>
                                            ELSE Generated(run.text,
                                                           ReplacementsFrom(run.candidates, 1),
                                                           r.strategy),
                              !.rewrite_candidates =
                                  [alternatives |-> r.alternatives, strategy |-> r.strategy]]
                /\ cache' = r.cache
    /\ UNCHANGED <<ret, calls, clock, safVars, memVars, roVars, fnVars>>

\* lines 46-48: validate_rewrites(text, rewrite_candidates) and the return
ValidateStep ==
    /\ run.pc = "validate"
    /\ run' = [run EXCEPT !.pc = "done", !.returned = TRUE,
                   !.result = [original |-> run.text,
                               alternatives |-> validate_rewrites(run.text,
                                                   run.rewrite_candidates.alternatives, 6, TRUE),
                               strategy |-> run.rewrite_candidates.strategy]]
    /\ UNCHANGED <<cache, ret, calls, clock, safVars, memVars, roVars, fnVars>>

(***************************************************************************)
(* select_rewrite_strategy called on its own (core/generation/spectrum.py).*)
(***************************************************************************)
\* values a stored prior takes, in hundredths
PriorValues == {0, 33, 34, 50}

\* the sets of strategy keys a data map can lack
MissingKeys == {{}, {"rewrite_minimal"}, {"rewrite_gentle"}, {"rewrite_full"}, StrategyKeys}

\* data maps holding every combination of the prior values
PriorData ==
    { [DefaultData EXCEPT !.keys = @ \ missing, !.rw = rw, !.rwd = 100] :
          rw \in [StrategyKeys -> PriorValues], missing \in MissingKeys }

SelInputs == { SafFp(d) : d \in PriorData } \cup {DictFp}

\* strategy = strategy_override or select_rewrite_strategy(fingerprint) with
\* no override (rewrite_engine.py:104): AttributeError when the argument has
\* no .data
Select ==
    /\ sel.pc = "call"
    /\ sel' = IF HasData(sel.fp)
              THEN [sel EXCEPT !.pc = "done", !.strategy = select_rewrite_strategy(sel.fp)]
              ELSE [sel EXCEPT !.pc = "done", !.raised = TRUE]
    /\ UNCHANGED <<sc, stg, disp, rag, det, clock, safVars, memVars, roVars, rwVars>>

(***************************************************************************)
(* The Sensory Translation Graph and its traversal (core/stg/graph.py,     *)
(* core/stg/traversal.py).  Costs are integers in units of 1/80, so that   *)
(* every weight the inputs below produce is exact; the 1e-9 tolerance of   *)
(* the skip test is below one unit.  A graph is [nodes, edges]: nodes maps *)
(* each node id to its modality (the text of a node is its id), edges is   *)
(* the list of edges in the order add_edge was called.  A user profile is  *)
(* [truthy, culture_factor, heuristic_bias, modality_penalty_factor]; a    *)
(* key the dict lacks carries the default the code reads for it.           *)
(***************************************************************************)
\* number of iterations of the traversal loop followed
MaxPops == 8

\* node ids in lexicographic order
NodeIds == <<"hum", "loud", "rumble", "vibration">>

\* the place of a node id in the order of str
Rank(id) == CHOOSE i \in DOMAIN NodeIds : NodeIds[i] = id

\* STGEdge(source, target, base_cost)
STGEdge(source, target, base_cost) ==
    [source |-> source, target |-> target, base_cost |-> base_cost]

\* graph.neighbors(node_id)
neighbors(graph, node_id) == SelectSeq(graph.edges, LAMBDA e : e.source = node_id)

\* graph.compute_transition_penalty as the fraction num/den: 1.0, plus 0.5
\* when the modalities differ, times the profile's factor for the target
\* modality, over the culture factor, not below 0
compute_transition_penalty(graph, source_id, target_id, user_profile, culture_factor) ==
    LET halves == IF graph.nodes[source_id] # graph.nodes[target_id] THEN 3 ELSE 2
        pref   == IF user_profile.truthy
                  THEN user_profile.modality_penalty_factor[graph.nodes[target_id]]
                  ELSE 1
    IN  [num |-> Max2(0, halves * pref), den |-> 2 * culture_factor]

\* STGEdge.weight(modality_penalty, cultural_factor)
weight(edge, modality_penalty, cultural_factor) ==
    Max2(0, (edge.base_cost * modality_penalty.num) \div (modality_penalty.den * cultural_factor))

\* the ids of S as a list in the order of str
RECURSIVE SortIds(_)
SortIds(S) ==
    IF S = {} THEN <<>>
    ELSE LET least == CHOOSE x \in S : \A y \in S : Rank(x) <= Rank(y)
         IN  <<least>> \o SortIds(S \ {least})

\* start_token.lower() in node.text.lower(), for the tokens used here: the
\* empty token is in every text, no id is part of another
Contains(text, token) == token = "" \/ token = text

\* _find_start_nodes: exact matches first, then substring matches, each
\* group in the order of the ids
_find_start_nodes(graph, start_token) ==
    LET exact == { n \in DOMAIN graph.nodes : n = start_token }
        part  == { n \in DOMAIN graph.nodes : n # start_token /\ Contains(n, start_token) }
    IN  SortIds(exact) \o SortIds(part)

\* list p < list q
RECURSIVE PathLess(_, _)
PathLess(p, q) ==
    IF q = <<>> THEN FALSE
    ELSE IF p = <<>> THEN TRUE
    ELSE IF Head(p) # Head(q) THEN Rank(Head(p)) < Rank(Head(q))
    ELSE PathLess(Tail(p), Tail(q))

\* tuple (cost, node_id, path) x < tuple y
HeapLess(x, y) ==
    \/ x.cost < y.cost
    \/ x.cost = y.cost /\ x.node # y.node /\ Rank(x.node) < Rank(y.node)
    \/ x.cost = y.cost /\ x.node = y.node /\ PathLess(x.path, y.path)

\* the index of the entry heapq.heappop removes: the least tuple
MinIndex(pq) ==
    CHOOSE i \in DOMAIN pq :
        \A j \in DOMAIN pq : j # i => (HeapLess(pq[i], pq[j]) \/ (pq[i] = pq[j] /\ i < j))

\* pq without its i-th entry
Without(pq, i) == SubSeq(pq, 1, i - 1) \o SubSeq(pq, i + 1, Len(pq))

\* the entries pushed while expanding the popped state (lines 87-100) from
\* the k-th outgoing edge on
RECURSIVE PushesFrom(_, _, _, _, _, _)
PushesFrom(graph, user_profile, popped, edges, k, visited_best) ==
    IF k > Len(edges) THEN <<>>
    ELSE LET next_id        == edges[k].target
             culture_factor == IF user_profile.truthy THEN user_profile.culture_factor ELSE 1
             penalty        == compute_transition_penalty(graph, popped.node, next_id,
                                                          user_profile, culture_factor)
             edge_weight    == weight(edges[k], penalty, culture_factor)
             heuristic      == IF user_profile.truthy THEN user_profile.heuristic_bias ELSE 0
             total_cost     == popped.cost + edge_weight + heuristic
         IN  (IF next_id \in DOMAIN visited_best /\ total_cost >= visited_best[next_id]
              THEN <<>>
              ELSE <<[cost |-> total_cost, node |-> next_id,
                      path |-> Append(popped.path, next_id)]>>)
             \o PushesFrom(graph, user_profile, popped, edges, k + 1, visited_best)

\* a call of dijkstra_paths on entry
DijkstraCall(graph, start_token, goal_modalities, user_profile, max_paths) ==
    [pc |-> "start", graph |-> graph, start_token |-> start_token,
     goal_modalities |-> goal_modalities, user_profile |-> user_profile,
     max_paths |-> max_paths, pq |-> <<>>, found |-> <<>>, visited_best |-> <<>>,
     finalized |-> <<>>, pops |-> 0, raised |-> FALSE, out |-> <<>>]

\* lines 58-68: the start nodes are looked up and pushed with cost 0;
\* KeyError when there is none
DijkstraStart ==
    /\ stg.pc = "start"
    /\ LET start_nodes == _find_start_nodes(stg.graph, stg.start_token)
       IN  stg' = IF start_nodes = <<>>
                  THEN [stg EXCEPT !.pc = "done", !.raised = TRUE]
                  ELSE [stg EXCEPT !.pc = "loop",
                            !.pq = [k \in DOMAIN start_nodes |->
                                       [cost |-> 0, node |-> start_nodes[k],
                                        path |-> <<start_nodes[k]>>]]]
    /\ UNCHANGED <<sel, sc, disp, rag, det, clock, safVars, memVars, roVars, rwVars>>

\* one iteration of the loop of lines 70-100: the least state is popped and
\* skipped, or recorded in visited_best and then either added to found (its
\* node is a goal) or expanded.  finalized lists the recorded states with
\* the best cost visited_best held for the node before.
DijkstraPop ==
    /\ stg.pc = "loop"
    /\ stg.pq # <<>>
    /\ Len(stg.found) < stg.max_paths
    /\ stg.pops < MaxPops
    /\ LET i      == MinIndex(stg.pq)
           popped == stg.pq[i]
           rest   == Without(stg.pq, i)
           seen   == popped.node \in DOMAIN stg.visited_best
           best   == Store(stg.visited_best, popped.node, popped.cost)
           entry  == [node |-> popped.node, cost |-> popped.cost, seen |-> seen,
                      before |-> IF seen THEN stg.visited_best[popped.node] ELSE 0]
       IN  stg' = IF seen /\ popped.cost > stg.visited_best[popped.node]
                  THEN [stg EXCEPT !.pq = rest, !.pops = @ + 1]
                  ELSE IF stg.graph.nodes[popped.node] \in stg.goal_modalities
                  THEN [stg EXCEPT !.pq = rest, !.pops = @ + 1, !.visited_best = best,
                            !.finalized = Append(@, entry),
                            !.found = Append(@, [cost |-> popped.cost, nodes |-> popped.path])]
                  ELSE [stg EXCEPT !.pops = @ + 1, !.visited_best = best,
                            !.finalized = Append(@, entry),
                            !.pq = rest \o PushesFrom(stg.graph, stg.user_profile, popped,
                                                      neighbors(stg.graph, popped.node), 1, best)]
    /\ UNCHANGED <<sel, sc, disp, rag, det, clock, safVars, memVars, roVars, rwVars>>

\* lines 102-107: the loop has ended and the found paths are returned with
\* their costs (score and explanation are functions of the cost)
DijkstraReturn ==
    /\ stg.pc = "loop"
    /\ stg.pq = <<>> \/ Len(stg.found) >= stg.max_paths
    /\ stg' = [stg EXCEPT !.pc = "done", !.out = stg.found]
    /\ UNCHANGED <<sel, sc, disp, rag, det, clock, safVars, memVars, roVars, rwVars>>

\* graphs
Loud == [nodes |-> [n \in {"loud", "vibration"} |-> IF n = "loud" THEN "hearing" ELSE "touch"],
         edges |-> <<STGEdge("loud", "vibration", 24)>>]

Diamond ==
    [nodes |-> [n \in {"hum", "loud", "rumble"} |-> IF n = "rumble" THEN "touch" ELSE "hearing"],
     edges |-> <<STGEdge("hum", "rumble", 40), STGEdge("hum", "loud", 80),
                 STGEdge("loud", "rumble", 40)>>]

Cycle ==
    [nodes |-> [n \in {"hum", "loud", "vibration"} |->
                   IF n = "vibration" THEN "touch" ELSE "hearing"],
     edges |-> <<STGEdge("hum", "loud", 40), STGEdge("loud", "hum", 40),
                 STGEdge("loud", "vibration", 80), STGEdge("hum", "hum", 8)>>]

Chain ==
    [nodes |-> [n \in {"hum", "loud", "rumble", "vibration"} |->
                   IF n \in {"rumble", "vibration"} THEN "touch" ELSE "hearing"],
     edges |-> <<STGEdge("loud", "hum", 24), STGEdge("hum", "vibration", 40),
                 STGEdge("hum", "rumble", 40), STGEdge("loud", "rumble", 80)>>]

\* add_edge called three times for the same pair of nodes, twice with the
\* same base_cost
Parallel ==
    [nodes |-> Loud.nodes,
     edges |-> <<STGEdge("loud", "vibration", 24), STGEdge("loud", "vibration", 24),
                 STGEdge("loud", "vibration", 40)>>]

\* SensoryTranslationGraph()
EmptyGraph == [nodes |-> <<>>, edges |-> <<>>]

Graphs == {Loud, Diamond, Cycle, Chain, Parallel, EmptyGraph}

\* None or {}
NoProfile ==
    [truthy |-> FALSE, culture_factor |-> 1, heuristic_bias |-> 0,
     modality_penalty_factor |-> [m \in {"hearing", "touch"} |-> 1]]

\* user profiles: culture_factor 2.0, heuristic_bias 0.25 and -2.0,
\* modality_penalty_factor {"touch": 2.0}, and a dict with none of the keys
Profiles ==
    { NoProfile,
      [NoProfile EXCEPT !.truthy = TRUE],
      [NoProfile EXCEPT !.truthy = TRUE, !.culture_factor = 2],
      [NoProfile EXCEPT !.truthy = TRUE, !.heuristic_bias = 20],
      [NoProfile EXCEPT !.truthy = TRUE, !.heuristic_bias = -160],
      [NoProfile EXCEPT !.truthy = TRUE, !.modality_penalty_factor["touch"] = 2] }

\* (graph, start_token, goal_modalities, user_profile, max_paths)
DijkstraCalls ==
    { DijkstraCall(g, t, goals, up, mp) :
          g \in Graphs, t \in {"loud", "hum", "", "zzz"},
          goals \in {{"touch"}, {}}, up \in Profiles, mp \in {1, 3} }

(***************************************************************************)
(* score_sensory_difficulty called on its own                              *)
(* (core/difficulty/zero_shot_scorer.py).                                  *)
(***************************************************************************)
\* a span as the scorer reads it; intensity is the numeric part of the
\* (level, score) pair in tenths
ScoredSpan(modality, token, confidence, intensity, culture) ==
    [modality |-> modality, token |-> token, confidence |-> confidence,
     intensity |-> intensity, culture |-> culture]

\* a span whose confidence is the string "high"
TextConfidenceSpan(modality, token, intensity, culture) ==
    [modality |-> modality, token |-> token, confidence_text |-> "high",
     intensity |-> intensity, culture |-> culture]

\* span lists handed to the scorer
SpanLists ==
    { <<>>,
      <<ScoredSpan("vision", TDim, 4500, 0, "global")>>,
      <<ScoredSpan("vision", TDim, 5775, 10, "jp"), ScoredSpan("hearing", TMid, 3500, 2, "us")>>,
      <<ScoredSpan("touch", TMid, 10000, 8, "mx")>>,
      <<ScoredSpan("balance", TMid, 5000, 5, "global")>>,
      <<ScoredSpan("vision", TDim, 5775, 10, "jp"), TextConfidenceSpan("hearing", TMid, 2, "us"),
        ScoredSpan("touch", TMid, 10000, 8, "mx")>>,
      <<TextConfidenceSpan("vision", TDim, 0, "global")>> }

\* fingerprints handed to the scorer
ScFingerprints ==
    { SafFp(DefaultData), SafFp(RawData), NoneFp,
      ObjFp("saf", UsedSAF([DefaultData EXCEPT !.mod["vision"] = 14, !.mod["touch"] = 20])) }

\* strategy arguments: the four known names and two others
StrategyArgs == Strategies \cup {"aggressive", ""}

\* score_sensory_difficulty(sensory_spans, fingerprint, strategy) called
\* directly: no exception leaves the loop of lines 59-120
ScoreCall ==
    /\ sc.pc = "call"
    /\ sc' = [sc EXCEPT !.pc = "done", !.raised = FALSE,
                        !.results = score_sensory_difficulty(sc.spans, sc.fp, sc.strategy)]
    /\ UNCHANGED <<sel, stg, disp, rag, det, clock, safVars, memVars, roVars, rwVars>>

(***************************************************************************)
(* Remote-capable dispatch (core/agents/*.py, core/agents/mcp.py,          *)
(* core/agents/utils/azure_copilot.py).  A reply is what one HTTP request  *)
(* meets: "json" a 2xx answer whose body is a JSON object, "list" a 2xx    *)
(* answer whose body is a JSON array, "null" a 2xx answer whose body is    *)
(* the JSON null, "text" a 2xx answer that is not JSON, "status500" a      *)
(* non-2xx answer, "timeout" an exception raised by the request.  The      *)
(* result of a response is "dict", "list" or "none" (None).                *)
(***************************************************************************)
Replies == {"json", "list", "null", "text", "status500", "timeout"}

\* the modules of core/agents that define an agent
AgentKeys ==
    {"detector_agent", "difficulty_agent", "stg_agent", "refinement_agent", "rewrite_agent",
     "cultural_agent", "validator_agent"}

\* AzureCopilotClient.call_agent: the response dict for a request that
\* meets the given reply; payloadOk says whether json.dumps(payload)
\* succeeds (it runs inside the try block, line 77)
call_agent(available, payloadOk, reply) ==
    IF ~available THEN [ok |-> FALSE, status |-> 0, result |-> "none"]
    ELSE IF ~payloadOk \/ reply = "timeout" THEN [ok |-> FALSE, status |-> 0, result |-> "none"]
    ELSE IF reply = "status500" THEN [ok |-> FALSE, status |-> 500, result |-> "dict"]
    ELSE [ok |-> TRUE, status |-> 200,
          result |-> IF reply = "list" THEN "list" ELSE IF reply = "null" THEN "none" ELSE "dict"]

\* the test an agent's run applies to the response: ok and a result that
\* is not None, for RefinementAgent a result that is a dict
AgentAccepts(agent_key, resp) ==
    /\ resp.ok
    /\ IF agent_key = "refinement_agent" THEN resp.result = "dict" ELSE resp.result # "none"

\* the test MCPOrchestrator.run applies to the response (mcp.py:78)
McpAccepts(resp) == resp.ok

\* MCPOrchestrator._instantiate finds the class _to_class_name(agent_key)
\* in the module: every agent but STGAgent, which _to_class_name spells
\* StgAgent
Instantiates(agent_key) == agent_key # "stg_agent"

\* what a dispatch returned: the remote result or the local algorithm's
Remote(resp) == [from |-> "remote", result |-> resp.result]

Local == [from |-> "local", result |-> "dict"]

NoReturn == [from |-> "none", result |-> "none"]

\* a dispatch on entry: through MCPOrchestrator.run or an agent's run;
\* serialisable says whether the arguments can be dumped as JSON (the
\* agents pass them inside context)
Dispatch(entry, agent_key, prefer_remote, available, serialisable) ==
    [pc |-> entry, entry |-> entry, agent_key |-> agent_key, prefer_remote |-> prefer_remote,
     available |-> available, serialisable |-> serialisable, requests |-> <<>>,
     resp |-> [ok |-> FALSE, status |-> 0, result |-> "none"], called |-> FALSE,
     raised |-> FALSE, returned |-> NoReturn]

\* MCPOrchestrator.run (mcp.py:64-86): with prefer_remote and an available
\* client the payload is dumped (TypeError when it cannot be) and the
\* remote task called; unless that returns, the agent is instantiated and
\* its run entered
McpRun ==
    \E reply \in Replies :
        LET resp == call_agent(disp.available, TRUE, reply)
        IN  /\ disp.pc = "mcp"
            /\ disp' =
                 IF disp.prefer_remote /\ disp.available /\ ~disp.serialisable
                 THEN [disp EXCEPT !.pc = "done", !.raised = TRUE]
                 ELSE IF disp.prefer_remote /\ disp.available /\ McpAccepts(resp)
                 THEN [disp EXCEPT !.pc = "done", !.requests = Append(@, reply),
                            !.resp = resp, !.called = TRUE, !.returned = Remote(resp)]
                 ELSE LET tried == IF disp.prefer_remote /\ disp.available
                                   THEN [disp EXCEPT !.requests = Append(@, reply),
                                              !.resp = resp, !.called = TRUE]
                                   ELSE disp
                      IN  IF Instantiates(disp.agent_key)
                          THEN [tried EXCEPT !.pc = "agent"]
                          ELSE [tried EXCEPT !.pc = "done", !.raised = TRUE]
            /\ UNCHANGED <<sel, sc, stg, rag, det, clock, safVars, memVars, roVars, rwVars>>

\* an agent's run (e.g. rewrite_agent.py:11-17): the remote task is called
\* when the client is available and its result returned when the response
\* passes the agent's test; otherwise the local algorithm is run
AgentRun ==
    \E reply \in Replies :
        LET resp == call_agent(disp.available, disp.serialisable, reply)
        IN  /\ disp.pc = "agent"
            /\ disp' =
                 IF disp.available /\ AgentAccepts(disp.agent_key, resp)
                 THEN [disp EXCEPT !.pc = "done", !.requests = Append(@, reply),
                            !.resp = resp, !.called = TRUE, !.returned = Remote(resp)]
                 ELSE IF disp.available
                 THEN [disp EXCEPT !.pc = "done", !.requests = Append(@, reply),
                            !.resp = resp, !.called = TRUE, !.returned = Local]
                 ELSE [disp EXCEPT !.pc = "done", !.returned = Local]
            /\ UNCHANGED <<sel, sc, stg, rag, det, clock, safVars, memVars, roVars, rwVars>>

(***************************************************************************)
(* Cultural metaphor retrieval: core/culture/retriever.py and              *)
(* core/culture/rag.py.  A similarity is kept as its square, an exact      *)
(* fraction num/den: similarities are never negative, so the square has    *)
(* the same zero and the same order as the float the code compares.        *)
(***************************************************************************)
TGlobal == <<"g", "l", "o", "b", "a", "l">>

TUs == <<"u", "s">>

TNone == <<"N", "o", "n", "e">>

\* the value None of a missing span key: no str, its element is no character
NoneToken == <<"None">>

\* f"{v}"
Format(v) == IF v = NoneToken THEN TNone ELSE v

\* s.strip()
RECURSIVE LStrip(_)
LStrip(s) == IF s # <<>> /\ Head(s) = Space THEN LStrip(Tail(s)) ELSE s

RECURSIVE RStrip(_)
RStrip(s) ==
    IF s # <<>> /\ s[Len(s)] = Space THEN RStrip(SubSeq(s, 1, Len(s) - 1)) ELSE s

Strip(s) == RStrip(LStrip(s))

\* seq[:n]
Take(seq, n) == SubSeq(seq, 1, Min2(n, Len(seq)))

\* seq.sort(reverse=True) under the order Greater of its elements: equal
\* elements are identical values, so each position holds a definite value
SortedReverse(seq, Greater(_, _)) ==
    LET pos(k) == 1 + Cardinality({j \in DOMAIN seq :
                        \/ Greater(seq[j], seq[k])
                        \/ seq[j] = seq[k] /\ j < k})
    IN  [p \in DOMAIN seq |-> seq[CHOOSE k \in DOMAIN seq : pos(k) = p]]

\* the elements of seq whose key(_) no earlier element has, in order
FirstOccurrences(seq, key(_)) ==
    LET kept == {k \in DOMAIN seq : \A j \in 1..(k - 1) : key(seq[j]) # key(seq[k])}
    IN  [p \in 1..Cardinality(kept) |->
            seq[CHOOSE k \in kept : Cardinality({j \in kept : j < k}) = p - 1]]

\* SENSORY_TAXONOMY[modality]["base_keywords"][:3]
BaseKeywordsHead(modality) ==
    IF modality = "vision" THEN <<<<"v", "i", "s", "i", "o", "n">>, <<"s", "i", "g", "h", "t">>, <<"e", "y", "e">>>>
    ELSE IF modality = "hearing" THEN <<<<"s", "o", "u", "n", "d">>, <<"n", "o", "i", "s", "e">>, <<"t", "o", "n", "e">>>>
    ELSE IF modality = "smell" THEN <<<<"s", "m", "e", "l", "l">>, <<"s", "c", "e", "n", "t">>, <<"o", "d", "o", "r">>>>
    ELSE IF modality = "taste" THEN <<<<"t", "a", "s", "t", "e">>, <<"f", "l", "a", "v", "o", "r">>, <<"f", "l", "a", "v", "o", "u", "r">>>>
    ELSE IF modality = "touch" THEN <<<<"t", "o", "u", "c", "h">>, <<"f", "e", "e", "l">>, <<"t", "e", "x", "t", "u", "r", "e">>>>
    ELSE <<<<"l", "i", "k", "e">>, <<"a", "s">>, <<"r", "e", "s", "e", "m", "b", "l", "e", "s">>>>

\* LANGUAGE_VARIANTS.get(language, {}).get("diminutives", [])[:2]
Diminutives(language) ==
    IF language = "en" THEN <<<<"-", "l", "e", "t">>, <<"-", "l", "i", "n", "g">>>>
    ELSE IF language = "es" THEN <<<<"-", "i", "t", "o">>, <<"-", "i", "t", "a">>>>
    ELSE IF language = "fr" THEN <<<<"-", "e", "t", "t", "e">>>>
    ELSE IF language = "de" THEN <<<<"-", "c", "h", "e", "n">>, <<"-", "l", "e", "i", "n">>>>
    ELSE <<>>

TLikeA == <<" ", "l", "i", "k", "e", " ", "a", " ">>

\* _expand_query(token, modality, language) for a str token
_expand_query(token, modality, language) ==
    LET q == Strip(token)
        similes == [k \in 1..2 |-> q \o TLikeA \o BaseKeywordsHead("vision")[k]]
        variants == [k \in DOMAIN Diminutives(language) |->
                        q \o Diminutives(language)[k]]
        expansions ==
            <<q>>
            \o (IF modality \in TaxonomyNames THEN BaseKeywordsHead(modality) ELSE <<>>)
            \o similes \o variants
    IN  FirstOccurrences(expansions, LowerStr)

\* _tokenize(text)
_tokenize(text) == LET words == Split(text)
                   IN  [k \in DOMAIN words |-> LowerStr(words[k])]

\* Counter(tokens)[t]
TokenCount(tokens, t) == Cardinality({k \in DOMAIN tokens : tokens[k] = t})

\* the similarity whose square is num/den, in lowest terms: one float, one value
Sim(num, den) == [num |-> num \div GCD(num, den), den |-> den \div GCD(num, den)]

\* sum(f[x] for x in S)
RECURSIVE SumOver(_, _)
SumOver(S, f) ==
    IF S = {} THEN 0
    ELSE LET x == CHOOSE y \in S : TRUE IN f[x] + SumOver(S \ {x}, f)

\* _cosine(_vectorize(a), _vectorize(b)), squared: the term frequencies are
\* the counts over the totals, and the totals cancel in the quotient
_cosine(a, b) ==
    LET dot == [t \in Range(a) |-> TokenCount(a, t) * TokenCount(b, t)]
        sqa == [t \in Range(a) |-> TokenCount(a, t) * TokenCount(a, t)]
        sqb == [t \in Range(b) |-> TokenCount(b, t) * TokenCount(b, t)]
        num == SumOver(Range(a), dot)
        denom == SumOver(Range(a), sqa) * SumOver(Range(b), sqb)
    IN  IF denom = 0 THEN Sim(0, 1) ELSE Sim(num * num, denom)

\* sim *= 1.1, squared
Boosted(sim) == Sim(sim.num * 121, sim.den * 100)

\* a < b for two similarities
SimLess(a, b) == a.num * b.den < b.num * a.den

\* an index entry, as DenseRetriever.index stores it
Doc(text, culture) == [text |-> text, culture |-> culture]

\* DenseRetriever.retrieve_with_scores(query, culture, top_k) over the index:
\* every one of the top_k entries is returned, whatever its similarity
retrieve_with_scores(index, query, culture, top_k) ==
    LET qvec == _tokenize(query)
        sim(i) == LET s == _cosine(qvec, _tokenize(index[i].text))
                  IN  IF culture # <<>> /\ SubText(LowerStr(culture), LowerStr(index[i].culture))
                      THEN Boosted(s) ELSE s
        scores == [i \in DOMAIN index |-> [sim |-> sim(i), i |-> i]]
        greater(x, y) == SimLess(y.sim, x.sim) \/ (x.sim = y.sim /\ x.i > y.i)
        top == Take(SortedReverse(scores, greater), top_k)
    IN  [k \in DOMAIN top |-> [score |-> top[k].sim, text |-> index[top[k].i].text]]

\* (score, text) > (score, text) for two scored candidates
CandidateGreater(x, y) ==
    \/ SimLess(y.score, x.score)
    \/ x.score = y.score /\ StrLess(y.text, x.text)

TDistantMemory == <<" ", "l", "i", "k", "e", " ", "a", " ", "d", "i", "s", "t", "a", "n", "t", " ", "m", "e", "m", "o", "r", "y">>

TFillsTheRoom == <<" ", "t", "h", "a", "t", " ", "f", "i", "l", "l", "s", " ", "t", "h", "e", " ", "r", "o", "o", "m">>

\* the fallback templates of a token, each with the score 0.2
Templates(token) ==
    <<[score |-> Sim(1, 25), text |-> Format(token) \o TDistantMemory],
      [score |-> Sim(1, 25), text |-> Format(token) \o TFillsTheRoom]>>

\* _cultural_filter(candidates, culture), the scores in hundredths
_cultural_filter(candidates, culture) ==
    LET score(c) == 100
                    + (IF SubText(LowerStr(culture), LowerStr(c)) THEN 20 ELSE 0)
                    + (IF Len(Split(c)) <= 3 THEN 5 ELSE 0)
        out == [k \in DOMAIN candidates |->
                    [score |-> score(candidates[k]), text |-> candidates[k]]]
        greater(x, y) == \/ x.score > y.score
                         \/ x.score = y.score /\ StrLess(y.text, x.text)
        sorted == SortedReverse(out, greater)
    IN  [k \in DOMAIN sorted |-> sorted[k].text]

\* rerank_metaphors(candidates, fingerprint) for a fingerprint with a data
\* attribute: every candidate gets the same familiarity, so the sort orders
\* the texts alone; span.get("fingerprint", {}) without one raises
rerank_metaphors(candidates) ==
    LET greater(x, y) == StrLess(y, x)
    IN  SortedReverse(candidates, greater)

Identity(x) == x

\* lines 136-137: the texts of the candidates, sorted by similarity, as they
\* enter the cultural filter
FilterInput(scored_candidates) ==
    LET sorted == SortedReverse(scored_candidates, CandidateGreater)
    IN  [k \in DOMAIN sorted |-> sorted[k].text]

\* the part of retrieve_cultural_metaphors after the retrieval loop
RankAndReturn(scored_candidates, span, culture, top_k) ==
    LET filtered_texts == _cultural_filter(FilterInput(scored_candidates), culture)
        reranked == IF HasData(span.fingerprint)
                    THEN rerank_metaphors(Take(filtered_texts, top_k * 2))
                    ELSE filtered_texts
    IN  Take(FirstOccurrences(reranked, Identity), top_k)

\* retrieve_cultural_metaphors, up to the loop: the expansions to query
Expansions(span, expand) ==
    IF expand /\ span.token # NoneToken
    THEN _expand_query(span.token, span.modality, span.language)
    ELSE <<span.token>>

\* the call starts
RagCall(index, span, culture, top_k, expand, fallback) ==
    /\ rag.pc = "idle"
    /\ rag' = [pc |-> "retrieving", index |-> index, span |-> span,
               culture |-> culture, top_k |-> top_k, fallback |-> fallback,
               expansions |-> Expansions(span, expand),
               scored_candidates |-> <<>>, errors |-> 0]
    /\ UNCHANGED <<sel, sc, stg, disp, det, clock, safVars, memVars, roVars, rwVars>>

\* one turn of the loop over the expansions: a query that is not a str makes
\* retrieve_with_scores and then retrieve raise in _tokenize, and the error
\* is logged; a str query never makes retrieve_with_scores raise
RagRetrieve ==
    /\ rag.pc = "retrieving"
    /\ rag.expansions # <<>>
    /\ LET q == Head(rag.expansions)
       IN  rag' = [rag EXCEPT
                !.expansions = Tail(@),
                !.scored_candidates =
                    IF q = NoneToken THEN @
                    ELSE @ \o retrieve_with_scores(rag.index, q, rag.culture, rag.top_k),
                !.errors = IF q = NoneToken THEN @ + 1 ELSE @]
    /\ UNCHANGED <<sel, sc, stg, disp, det, clock, safVars, memVars, roVars, rwVars>>

\* after the loop: the fallback, the ranking and the return
RagReturn ==
    /\ rag.pc = "retrieving"
    /\ rag.expansions = <<>>
    /\ LET templated == rag.scored_candidates = <<>> /\ rag.fallback
           ranked == IF templated THEN Templates(rag.span.token)
                     ELSE rag.scored_candidates
       IN  rag' = [pc |-> "done", index |-> rag.index, span |-> rag.span,
                   culture |-> rag.culture, top_k |-> rag.top_k,
                   fallback |-> rag.fallback,
                   retrieved |-> rag.scored_candidates, errors |-> rag.errors,
                   ranked |-> ranked,
                   entered |-> FilterInput(ranked),
                   filtered |-> _cultural_filter(FilterInput(ranked), rag.culture),
                   result |-> RankAndReturn(ranked, rag.span, rag.culture, rag.top_k)]
    /\ UNCHANGED <<sel, sc, stg, disp, det, clock, safVars, memVars, roVars, rwVars>>

TEye == <<"e", "y", "e">>

TId == <<"i", "d">>

TDimLikeAVision == TCapDim \o TLikeA \o <<"v", "i", "s", "i", "o", "n">>

\* the documents an index is built from
Docs == {Doc(TMid, TGlobal), Doc(TDimMid, TUs), Doc(TEye, TGlobal),
         Doc(TDimLikeAVision, TUs)}

Indexes ==
    {<<>>} \cup {<<d>> : d \in Docs}
           \cup {p \in Docs \X Docs : p[1] # p[2]}

\* a detection span: a missing modality is the value "None", a missing
\* fingerprint the {} that span.get defaults to
RagSpan(token, modality, language, fingerprint) ==
    [token |-> token, modality |-> modality, language |-> language,
     fingerprint |-> fingerprint]

RagSpans ==
    {RagSpan(t, m, "en", f) :
        t \in {TDim, <<Space>> \o TCapDim \o <<Space>>, TId, NoneToken},
        m \in {"vision", "None"},
        f \in {NoneFp, SafFp(SkewedData)}}
    \cup {RagSpan(TDim, "hearing", "zz", NoneFp), RagSpan(TId, "hearing", "es", NoneFp)}

TopKs == {1, 8}

RagInit ==
    /\ rag = NoCall
    /\ clock = 1
    /\ SafQuiet /\ MemQuiet /\ RoQuiet /\ RwQuiet
    /\ SelQuiet /\ ScQuiet /\ StgQuiet /\ DispQuiet /\ DetQuiet

RagNext ==
    \/ \E index \in Indexes, span \in RagSpans, culture \in {TGlobal, TUs},
          top_k \in TopKs, expand \in BOOLEAN, fallback \in BOOLEAN :
            RagCall(index, span, culture, top_k, expand, fallback)
    \/ RagRetrieve
    \/ RagReturn

RagSpec == RagInit /\ [][RagNext]_vars

(***************************************************************************)
(* detect_sensory_spans called on its own, one step per stage of           *)
(* core/detection/sensory_detector.py:71-202.                              *)
(***************************************************************************)
\* lines 99-113: the language is checked, the text tokenised, and the idiom
\* spans are collected
DetectCall(text, language, culture) ==
    /\ det.pc = "idle"
    /\ det' = IF language \notin LANGUAGE_VARIANTS
              THEN [pc |-> "done", text |-> text, language |-> language,
                    culture |-> culture, raised |-> TRUE, result |-> <<>>]
              ELSE [pc |-> "tokens", text |-> text, language |-> language,
                    culture |-> culture, tokens |-> _simple_tokenize(text), i |-> 1,
                    spans |-> IdiomSpansFrom(text, culture, 1)]
    /\ UNCHANGED <<sel, sc, stg, disp, rag, clock, safVars, memVars, roVars, rwVars>>

\* lines 143-197: one turn of the token loop
DetectToken ==
    /\ det.pc = "tokens"
    /\ det.i <= Len(det.tokens)
    /\ det' = [det EXCEPT
            !.spans = @ \o TokenSpans(det.tokens, det.i, det.language, det.culture),
            !.i = @ + 1]
    /\ UNCHANGED <<sel, sc, stg, disp, rag, clock, safVars, memVars, roVars, rwVars>>

\* lines 199-202: the overlaps are resolved and the spans returned
DetectReturn ==
    /\ det.pc = "tokens"
    /\ det.i > Len(det.tokens)
    /\ det' = [pc |-> "done", text |-> det.text, language |-> det.language,
               culture |-> det.culture, raised |-> FALSE,
               result |-> _resolve_overlaps(det.spans)]
    /\ UNCHANGED <<sel, sc, stg, disp, rag, clock, safVars, memVars, roVars, rwVars>>

TRoomBell ==
    <<"T", "h", "e", " ", "r", "o", "o", "m", " ", "w", "a", "s", " ", "d",
    "i", "m", " ", "a", "n", "d", " ", "t", "h", "e", " ", "b", "e", "l",
    "l", " ", "r", "a", "n", "g", " ", "l", "o", "u", "d", "l", "y">>

TRangLoudly ==
    <<"r", "a", "n", "g", " ", "l", "o", "u", "d", "l", "y">>

TRings ==
    <<"l", "o", "u", "d", " ", "r", "i", "n", "g", " ", "r", "i", "n", "g",
    "s", " ", "r", "i", "n", "g", "i", "n", "g">>

TVeryLoud ==
    <<"a", " ", "v", "e", "r", "y", " ", "l", "o", "u", "d", " ", "b", "e",
    "l", "l">>

TMusic ==
    <<"M", "u", "s", "i", "c", " ", "t", "o", " ", "m", "y", " ", "e", "a",
    "r", "s">>

TSmellsLike ==
    <<"i", "t", " ", "s", "m", "e", "l", "l", "s", " ", "l", "i", "k", "e",
    " ", "r", "a", "i", "n">>

TDimLight ==
    <<"D", "i", "m", "-", " ", "l", "i", "g", "h", "t">>

TDeafening ==
    <<"t", "h", "e", " ", "d", "e", "a", "f", "e", "n", "i", "n", "g", " ",
    "b", "e", "l", "l", "s">>

TClearAsDay ==
    <<"a", "s", " ", "c", "l", "e", "a", "r", " ", "a", "s", " ", "d", "a",
    "y">>

DetTexts == {<<>>, TCapDimMid, TRoomBell, TRangLoudly, TRings, TVeryLoud,
             TMusic, TSmellsLike, TDimLight, TDeafening,
             TClearAsDay}

DetInit ==
    /\ det = NoCall
    /\ clock = 1
    /\ SafQuiet /\ MemQuiet /\ RoQuiet /\ RwQuiet
    /\ SelQuiet /\ ScQuiet /\ StgQuiet /\ DispQuiet /\ RagQuiet

DetNext ==
    \/ \E text \in DetTexts, language \in {"en", "es", "zz"},
          culture \in {"global", "mx", "zz"} :
            DetectCall(text, language, culture)
    \/ DetectToken
    \/ DetectReturn

DetSpec == DetInit /\ [][DetNext]_vars

(***************************************************************************)
(* generate_rewrites called on its own, call after call against one        *)
(* _REWRITE_CACHE, with candidate bundles whose spans carry their offsets  *)
(* (core/generation/rewrite_engine.py:85-158).                             *)
(***************************************************************************)
\* a candidate bundle whose span is the token at start_char (counted from 0)
SpanBundle(token, start_char, alts) ==
    [token |-> token, alts |-> alts, start_char |-> start_char]

\* the candidate lists: one span, two spans in either order, two spans
\* with the same token, a span without alternatives
GenCandidates ==
    { <<SpanBundle(TDim, 0, <<StrAlt(TMid)>>)>>,
      <<SpanBundle(TDim, 0, <<StrAlt(TMid)>>), SpanBundle(TMid, 4, <<StrAlt(TDim)>>)>>,
      <<SpanBundle(TMid, 4, <<StrAlt(TDim)>>), SpanBundle(TDim, 0, <<StrAlt(TMid)>>)>>,
      <<SpanBundle(TDim, 0, <<StrAlt(TMid), StrAlt(TDim)>>),
        SpanBundle(TDim, 4, <<StrAlt(TMid)>>)>>,
      <<SpanBundle(TDim, 0, <<>>), SpanBundle(TDim, 4, <<StrAlt(TDimMid)>>)>> }

\* the candidate lists whose spans lie in the text
CandidatesOf(text) ==
    {c \in GenCandidates :
        \A k \in DOMAIN c : MatchesAt(text, c[k].start_char + 1, c[k].token)}

\* (text, candidates, fingerprint, strategy_override, validate)
GenCalls ==
    { <<t, c, SafFp(DefaultData), o, v>> :
        t \in {TDimMid, TDimDim}, c \in GenCandidates,
        o \in {"gentle", "full"}, v \in BOOLEAN }
    \cup { <<t, <<SpanBundle(TDim, 0, <<StrAlt(TMid)>>)>>, SafFp(DefaultData), o, TRUE>> :
              t \in {TDimMid, TDimDim}, o \in {"", "minimal"} }

\* one call of generate_rewrites: what it was given, the key it looked up,
\* the rewrites its strategy branch produced before validating any, and what
\* it returned
GenerateRewrites ==
    \E c \in GenCalls :
        LET r == generate_rewrites(c[1], c[2], c[3], c[4], c[5], cache)
            reps == ReplacementsFrom(c[2], 1)
        IN  /\ c[2] \in CandidatesOf(c[1])
            /\ calls < MaxCalls
            /\ calls' = calls + 1
            /\ ret' = [op |-> "generate_rewrites", raised |-> r.raised, hit |-> r.hit,
                       original |-> c[1], candidates |-> c[2], fingerprint |-> c[3],
                       override |-> c[4], validating |-> c[5],
                       key |-> _cache_key(c[1], reps, r.strategy),
                       generated |-> IF r.raised \/ r.hit THEN <<>>
                                     ELSE Generated(c[1], reps, r.strategy),
                       alternatives |-> r.alternatives, strategy |-> r.strategy]
            /\ cache' = r.cache
            /\ UNCHANGED <<run, clock, safVars, memVars, roVars, fnVars>>

GenInit ==
    /\ RwQuiet
    /\ clock = 1
    /\ SafQuiet /\ MemQuiet /\ RoQuiet /\ FnQuiet

GenNext == GenerateRewrites

GenSpec == GenInit /\ [][GenNext]_vars

(***************************************************************************)
(* Specifications.                                                         *)
(***************************************************************************)
\* fingerprint operations on one object
SafInit ==
    /\ saf \in Constructed
    /\ prev = saf
    /\ lastOp = Op("init", FALSE, NoFeedback, 0)
    /\ rt = NoRt
    /\ clock = 1
    /\ MemQuiet /\ RoQuiet /\ RwQuiet /\ FnQuiet

SafNext ==
    \/ Validate
    \/ FromDict
    \/ RecordInteraction
    \/ UpdateFromFeedback
    \/ AdjustModalitySensitivity
    \/ RoundTrip

SafSpec == SafInit /\ [][SafNext]_vars

\* AgenticMemory callers over the file store
MemInit == SafQuiet /\ clock = 1 /\ MemQuiet /\ RoQuiet /\ RwQuiet /\ FnQuiet

MemSpec == MemInit /\ [][MemNext]_vars

\* _resolve_overlaps on every candidate list of at most MaxSpans spans
RoInit ==
    /\ cand \in UNION { [1..n -> CandidateSpans] : n \in 0..MaxSpans }
    /\ resolved = NoResolved
    /\ SafQuiet /\ clock = 1 /\ MemQuiet /\ RwQuiet /\ FnQuiet

RoNext == ResolveOverlaps

RoSpec == RoInit /\ [][RoNext]_vars

\* the rewrite engine, the validator and the pipeline
RwInit == SafQuiet /\ clock = 1 /\ MemQuiet /\ RoQuiet /\ RwQuiet /\ FnQuiet

RwNext ==
    \/ CallValidateRewrites
    \/ CallGenerateRewrites
    \/ StartPipeline
    \/ Detect
    \/ Score
    \/ SpanStep
    \/ Generate
    \/ ValidateStep

RwSpec == RwInit /\ [][RwNext]_vars

\* select_rewrite_strategy on every fingerprint of SelInputs
SelInit ==
    /\ sel \in { [pc |-> "call", fp |-> f, raised |-> FALSE, strategy |-> ""] : f \in SelInputs }
    /\ ScQuiet /\ StgQuiet /\ DispQuiet /\ RagQuiet /\ DetQuiet
    /\ SafQuiet /\ clock = 1 /\ MemQuiet /\ RoQuiet /\ RwQuiet

SelNext == Select

SelSpec == SelInit /\ [][SelNext]_vars

\* dijkstra_paths on every call of DijkstraCalls
StgInit ==
    /\ stg \in DijkstraCalls
    /\ SelQuiet /\ ScQuiet /\ DispQuiet /\ RagQuiet /\ DetQuiet
    /\ SafQuiet /\ clock = 1 /\ MemQuiet /\ RoQuiet /\ RwQuiet

StgNext ==
    \/ DijkstraStart
    \/ DijkstraPop
    \/ DijkstraReturn

StgSpec == StgInit /\ [][StgNext]_vars

\* score_sensory_difficulty on every combination of the scorer inputs
ScInit ==
    /\ sc \in { [pc |-> "call", spans |-> sp, fp |-> f, strategy |-> st, raised |-> FALSE,
                 results |-> <<>>] : sp \in SpanLists, f \in ScFingerprints, st \in StrategyArgs }
    /\ SelQuiet /\ StgQuiet /\ DispQuiet /\ RagQuiet /\ DetQuiet
    /\ SafQuiet /\ clock = 1 /\ MemQuiet /\ RoQuiet /\ RwQuiet

ScNext == ScoreCall

ScSpec == ScInit /\ [][ScNext]_vars

\* every dispatch through the orchestrator or an agent
DispInit ==
    /\ disp \in { Dispatch(e, a, p, av, ser) :
                     e \in {"mcp", "agent"}, a \in AgentKeys, p \in BOOLEAN, av \in BOOLEAN,
                     ser \in BOOLEAN }
    /\ SelQuiet /\ ScQuiet /\ StgQuiet /\ RagQuiet /\ DetQuiet
    /\ SafQuiet /\ clock = 1 /\ MemQuiet /\ RoQuiet /\ RwQuiet

DispNext ==
    \/ McpRun
    \/ AgentRun

DispSpec == DispInit /\ [][DispNext]_vars

(***************************************************************************)
(* Properties.                                                             *)
(***************************************************************************)
\* the five sensitivities of f lie in [0, 1]
InRange(f) == \A m \in ModalitySet : GetMod(f.data, m) >= 0 /\ GetMod(f.data, m) <= One

\* the alternative g does not pass validate_rewrites' two tests
Fails(original, g, tenths, preserve) ==
    \/ preserve /\ ~preserve_named_entities(original, g)
    \/ ~AtLeast(_default_semantic_similarity(original, g), tenths)

AllFail(original, generated, tenths, preserve) ==
    \A k \in DOMAIN generated : Fails(original, generated[k], tenths, preserve)

\* C1: a run_rewrite_pipeline call that has finished has returned a value to
\* its caller, and when any stage raised, that value is exactly
\* {original: text, alternatives: [text], strategy: "minimal"}, with nothing
\* of the failed run in it.
C1_PipelineFallback ==
    run.pc = "done" =>
        /\ run.returned
        /\ run.raisedAt # "none" =>
               run.result = [original |-> run.text, alternatives |-> <<run.text>>,
                             strategy |-> "minimal"]

\* a run that had built candidates when generate_rewrites raised
C1_Witness ==
    /\ run.pc = "done"
    /\ run.raisedAt = "generate"
    /\ run.candidates # <<>>
    /\ run.result.alternatives = <<run.text>>

\* C2: the alternatives returned by validate_rewrites, by generate_rewrites
\* (freshly built or read from the cache) and by run_rewrite_pipeline are
\* never empty, and when every rewrite a call generated fails validation
\* (entity preservation or the similarity threshold) they are exactly
\* [original text].
C2_AlternativesNonEmpty ==
    /\ (ret.op # "none" /\ ~ret.raised) =>
           /\ ret.alternatives # <<>>
           /\ (~ret.hit /\ AllFail(ret.original, ret.generated, ret.tenths, ret.preserve))
                  => ret.alternatives = <<ret.original>>
    /\ run.pc = "done" =>
           /\ run.result.alternatives # <<>>
           /\ (run.raisedAt = "none" /\ ~run.hit /\ AllFail(run.text, run.generated, 6, TRUE))
                  => run.result.alternatives = <<run.text>>

\* a generate_rewrites call whose rewrites all failed validation
C2_Witness ==
    /\ ret.op = "generate_rewrites"
    /\ ~ret.raised /\ ~ret.hit
    /\ ret.generated # <<>>
    /\ AllFail(ret.original, ret.generated, ret.tenths, ret.preserve)
    /\ ret.alternatives = <<ret.original>>

\* C3: no two distinct spans of the list _resolve_overlaps returns have
\* overlapping [start_char, end_char) ranges.
C3_NoOverlap ==
    resolved.done =>
        \A i \in DOMAIN resolved.spans : \A j \in DOMAIN resolved.spans :
            i # j => \/ resolved.spans[i].end_char <= resolved.spans[j].start_char
                     \/ resolved.spans[j].end_char <= resolved.spans[i].start_char

\* overlapping candidates on one token, of which some were dropped and
\* two spans survive
C3_Witness ==
    /\ resolved.done
    /\ \E i \in DOMAIN cand : \E j \in DOMAIN cand :
           i # j /\ cand[i].start_char = cand[j].start_char
                 /\ cand[i].end_char = cand[j].end_char
                 /\ cand[i].modality # cand[j].modality
    /\ Len(resolved.spans) = 2
    /\ Len(cand) = 3

\* C4: after a validate call, or an update_from_feedback call that ran to
\* its end, the three strategy priors sum to 1.0 within 1e-6.
C4_PriorsSumToOne ==
    (lastOp.op \in {"validate", "update_from_feedback"} /\ ~lastOp.raised)
        => PriorsSumToOne(saf)

\* C5: update_from_feedback is all or nothing: a call that fails part-way
\* leaves data and history as they were, a call that runs to its end has
\* appended its feedback event.
C5_UpdateAtomic ==
    lastOp.op = "update_from_feedback" =>
        IF lastOp.raised
        THEN saf.data = prev.data /\ saf.history = prev.history
        ELSE /\ saf.history # <<>>
             /\ saf.history[Len(saf.history)].type = "feedback"
             /\ saf.history[Len(saf.history)].action = Lower(lastOp.fb.action)

\* C6: once two concurrent update_from_feedback calls for the same user have
\* both returned, the persisted fingerprint holds the feedback event of
\* each and the persisted interaction log holds the payload of each.
C6_NoLostUpdate ==
    (\A w \in Updaters : pc[w] = "done") =>
        /\ files[FpKey("u1")].state = "ok"
        /\ files[LogKey("u1")].state = "ok"
        /\ \A w \in Updaters :
               /\ \E i \in DOMAIN files[FpKey("u1")].saf.history :
                      /\ files[FpKey("u1")].saf.history[i].action = Lower(local[w].fb.action)
                      /\ files[FpKey("u1")].saf.history[i].modality = local[w].fb.modality
               /\ \E i \in DOMAIN files[LogKey("u1")].log :
                      files[LogKey("u1")].log[i].payload = local[w].fb

\* C7: from_dict(f.to_dict()) has the data, preferences, history and version of f.
C7_RoundTrip ==
    lastOp.op = "round_trip" =>
        /\ rt.res.data = saf.data
        /\ rt.res.preferences = saf.preferences
        /\ rt.res.history = saf.history
        /\ rt.res.version = saf.version

\* C8: history never holds more events than the cap, and an append keeps
\* the newest events in arrival order, dropping the oldest.
C8_HistoryBounded ==
    /\ Len(saf.history) <= HistoryCap
    /\ lastOp.op = "record_interaction" =>
           /\ saf.history # <<>>
           /\ SubSeq(saf.history, 1, Len(saf.history) - 1)
                  = LastN(prev.history, Len(saf.history) - 1)

\* C9: an update_from_feedback or adjust_modality_sensitivity call on a
\* fingerprint whose sensitivities lie in [0,1] leaves them in [0,1]; a
\* successful worsen/sensitivity_inc (improve/sensitivity_dec) on a base
\* modality sets it to old + (old -) magnitude x learning_rate clamped to
\* [0,1] and leaves the other four alone.
C9_SensitivityBounded ==
    (lastOp.op \in {"update_from_feedback", "adjust_modality_sensitivity"} /\ InRange(prev)) =>
        /\ InRange(saf)
        /\ (lastOp.op = "update_from_feedback" /\ ~lastOp.raised
              /\ lastOp.fb.modality \in ModalitySet
              /\ Lower(lastOp.fb.action) \in {"worsen", "sensitivity_inc", "improve", "sensitivity_dec"})
             => LET m     == lastOp.fb.modality
                    delta == IF Lower(lastOp.fb.action) \in {"worsen", "sensitivity_inc"}
                             THEN Magnitude(lastOp.fb, lastOp.lr)
                             ELSE 0 - Magnitude(lastOp.fb, lastOp.lr)
                IN  /\ GetMod(saf.data, m) = Clamp01(GetMod(prev.data, m) + delta)
                    /\ \A o \in ModalitySet \ {m} : GetMod(saf.data, o) = GetMod(prev.data, o)

\* C10: the fingerprint create_user stored when given no initial payload,
\* loaded back before any update, has the data of the default fingerprint
\* load_fingerprint returns for a user id nothing was stored for.
C10_CreateDefaults ==
    ( /\ loaded["u1"].done /\ ~loaded["u1"].raised
      /\ loaded["u1"].at["creator"] = "done"
      /\ \A w \in Updaters : loaded["u1"].at[w] = "idle"
      /\ local["creator"].initial = NonePayload
      /\ loaded["u2"].done )
        => loaded["u1"].fp.data = loaded["u2"].fp.data

\* C11: run_rewrite_pipeline leaves the fingerprint as it found it: on
\* either return, the normal one and the fallback of the except clause, the
\* fingerprint's data, preferences, history and version are those it had when
\* the call was entered.
C11_FingerprintReadOnly ==
    run.returned =>
        /\ run.fp.data = run.entry.data
        /\ run.fp.preferences = run.entry.preferences
        /\ run.fp.history = run.entry.history
        /\ run.fp.version = run.entry.version

\* a pipeline call given a fingerprint in use returned normally after
\* scoring and processing a detected span
C11_Witness ==
    /\ run.returned
    /\ run.raisedAt = "none"
    /\ run.sensory_spans # <<>>
    /\ run.i = Len(run.sensory_spans)
    /\ run.entry.history # <<>>
    /\ run.entry.preferences # {}

\* the prior stored under key k, or the value the fingerprint is built with
\* when the key is absent
Prior(data, k) ==
    IF k \in data.keys THEN [num |-> data.rw[k], den |-> data.rwd]
    ELSE [num |-> DefaultData.rw[k], den |-> DefaultData.rwd]

\* the key of a strategy name, and the place of the name in the order
\* minimal, gentle, full
KeyOf(strategy) == "rewrite_" \o strategy

Place(strategy) == IF strategy = "minimal" THEN 1 ELSE IF strategy = "gentle" THEN 2 ELSE 3

\* C12: with no override, select_rewrite_strategy returns a strategy whose
\* prior is maximal among the three, and of the strategies tied for the
\* maximum the first in the order minimal, gentle, full.
C12_ArgmaxFirst ==
    (sel.pc = "done" /\ ~sel.raised) =>
        /\ sel.strategy \in {"minimal", "gentle", "full"}
        /\ \A t \in {"minimal", "gentle", "full"} :
               /\ ~ScoreGreater(Prior(sel.fp.data, KeyOf(t)), Prior(sel.fp.data, KeyOf(sel.strategy)))
               /\ Place(t) < Place(sel.strategy) =>
                      ScoreGreater(Prior(sel.fp.data, KeyOf(sel.strategy)), Prior(sel.fp.data, KeyOf(t)))

\* the call returned gentle for a fingerprint whose gentle and full priors
\* tie for the maximum, all three keys being stored
C12_Witness ==
    /\ sel.pc = "done"
    /\ sel.strategy = "gentle"
    /\ StrategyKeys \subseteq sel.fp.data.keys
    /\ sel.fp.data.rw["rewrite_gentle"] = sel.fp.data.rw["rewrite_full"]
    /\ sel.fp.data.rw["rewrite_minimal"] < sel.fp.data.rw["rewrite_gentle"]

\* the minimal prior of data is not below the gentle or the full prior
MinimalIsMax(data) ==
    /\ ~ScoreGreater(Prior(data, "rewrite_gentle"), Prior(data, "rewrite_minimal"))
    /\ ~ScoreGreater(Prior(data, "rewrite_full"), Prior(data, "rewrite_minimal"))

C14_CostMonotonic ==
    /\ \A i \in DOMAIN stg.finalized : \A j \in DOMAIN stg.finalized :
           (i < j /\ stg.finalized[i].node = stg.finalized[j].node) =>
               stg.finalized[j].cost >= stg.finalized[i].cost
    /\ \A j \in DOMAIN stg.finalized :
           stg.finalized[j].seen => stg.finalized[j].cost <= stg.finalized[j].before

\* the edge of the graph from s to t
EdgeBetween(graph, s, t) == CHOOSE e \in Range(graph.edges) : e.source = s /\ e.target = t

\* base_cost x modalityPenalty / culturalFactor, not below 0, where the
\* penalty is 1.0 or 1.5 times the profile's factor for the target modality
EffectiveWeight(graph, user_profile, s, t) ==
    LET halves == IF graph.nodes[s] # graph.nodes[t] THEN 3 ELSE 2
    IN  Max2(0, (EdgeBetween(graph, s, t).base_cost * halves
                 * user_profile.modality_penalty_factor[graph.nodes[t]])
                \div (2 * user_profile.culture_factor))

\* the sum of the effective weights along the path from its k-th node on
RECURSIVE PathWeight(_, _, _, _)
PathWeight(graph, user_profile, nodes, k) ==
    IF k >= Len(nodes) THEN 0
    ELSE EffectiveWeight(graph, user_profile, nodes[k], nodes[k + 1])
         + PathWeight(graph, user_profile, nodes, k + 1)

\* C15: the cost of every path dijkstra_paths returns is the sum of the
\* effective weights of its edges, and from "loud" with goal touch on the
\* graph of the single edge loud -> vibration exactly the path
\* [loud, vibration] is returned.
C15_PathCost ==
    (stg.pc = "done" /\ ~stg.raised) =>
        /\ \A k \in DOMAIN stg.out :
               stg.out[k].cost = PathWeight(stg.graph, stg.user_profile, stg.out[k].nodes, 1)
        /\ (stg.graph = Loud /\ stg.start_token = "loud" /\ stg.goal_modalities = {"touch"}) =>
               (Len(stg.out) = 1 /\ stg.out[1].nodes = <<"loud", "vibration">>)

\* C16: traverse_stg, called by the pipeline with a detected span and the
\* caller's fingerprint, raises nothing when no graph node matches the
\* span's token (none does: it traverses a graph built empty); the loop
\* goes on with an empty list of nodes.
C16_TraverseNeverRaises ==
    /\ run.raisedAt # "traverse"
    /\ (run.pc = "loop" /\ run.i < Len(run.sensory_spans)) => ~TraverseRaises(run.fp)

\* C17: score_sensory_difficulty called with a strategy name other than
\* simple, contextual, weighted and conservative fails with an error that
\* reaches the caller, and returns no score records.
C17_UnknownStrategyRaises ==
    (sc.pc = "done" /\ sc.strategy \notin {"simple", "contextual", "weighted", "conservative"}) =>
        (sc.raised /\ sc.results = <<>>)

\* C18: a dispatch through an agent's run or through MCPOrchestrator.run
\* returns the remote result only when the client is available and the call
\* it made reported ok with a result present; in every other case it runs
\* the local algorithm and returns that result.
C18_RemoteOrLocal ==
    disp.pc = "done" =>
        LET usable == disp.available /\ disp.called /\ disp.resp.ok /\ disp.resp.result # "none"
        IN  /\ ~disp.raised
            /\ disp.returned.from \in {"remote", "local"}
            /\ disp.returned.from = "remote" => (usable /\ disp.returned.result # "none")
            /\ ~usable => disp.returned = Local

\* C19: once retrieve_cultural_metaphors, called with the fallback on, has
\* returned (it never raises for a query that failed) and no candidate
\* retrieved over all the expansions had a score above zero, the candidates
\* it ranked are the two templates of the token, "<token> like a distant
\* memory" and "<token> that fills the room", and it returned only those.
C19_TemplatesWhenNothingScores ==
    (/\ rag.pc = "done"
     /\ rag.fallback
     /\ \A k \in DOMAIN rag.retrieved : rag.retrieved[k].score.num <= 0)
    => /\ rag.ranked = Templates(rag.span.token)
       /\ Len(rag.result) = Min2(rag.top_k, 2)
       /\ Range(rag.result) \subseteq
            {Templates(rag.span.token)[k].text : k \in 1..2}

\* the spans of modality with one of the tokens and a confidence above zero
\* among the spans a finished detection returned
ReturnedSpans(modality, tokens) ==
    {k \in DOMAIN det.result :
        /\ det.result[k].modality = modality
        /\ det.result[k].token \in tokens
        /\ det.result[k].confidence > 0}

\* C20: for the text "The room was dim and the bell rang loudly" with
\* language en and culture global, detect_sensory_spans returns a vision span
\* for "dim" and a hearing span for the token "rang" or the token "loudly",
\* each with a confidence above zero.
C20_DimAndRang ==
    (/\ det.pc = "done"
     /\ det.text = TRoomBell /\ det.language = "en" /\ det.culture = "global")
    => /\ ~det.raised
       /\ ReturnedSpans("vision", {TDim}) # {}
       /\ ReturnedSpans("hearing", {<<"r", "a", "n", "g">>,
                                     <<"l", "o", "u", "d", "l", "y">>}) # {}

\* the text with the token of length len at start_char (counted from 0)
\* replaced by new and nothing else changed
ReplacedAt(text, start_char, len, new) ==
    SubSeq(text, 1, start_char) \o new \o SubSeq(text, start_char + len + 1, Len(text))

\* the bundles with at least one alternative, in order
WithAlternatives(candidates) == SelectSeq(candidates, LAMBDA c : c.alts # <<>>)

\* a generate_rewrites call under the strategy has just computed its result
Computed(strategy) ==
    /\ calls > 0
    /\ ret.op = "generate_rewrites"
    /\ ~ret.raised /\ ~ret.hit
    /\ ret.strategy = strategy

\* C21: under the gentle strategy generate_rewrites produces, for each
\* bundle with an alternative, the original text with only that span's token
\* replaced by the bundle's first alternative; each candidate is validated
\* on its own, and when none is valid the result is [original text].
C21_GentleOneSpan ==
    Computed("gentle") =>
        LET bundles == WithAlternatives(ret.candidates)
        IN  /\ Len(ret.generated) = Len(bundles)
            /\ \A k \in DOMAIN bundles :
                    ret.generated[k] =
                        ReplacedAt(ret.original, bundles[k].start_char,
                                   Len(bundles[k].token), bundles[k].alts[1].text)
            /\ (ret.validating
                 /\ \A k \in DOMAIN ret.generated :
                        ~validate_rewrite(ret.original, ret.generated[k]))
                => ret.alternatives = <<ret.original>>

\* the text from position k on with the token of every span of bundles
\* replaced, where the span lies in the original text, by the bundle's first
\* alternative: one pass over the original, whatever the order of bundles
RECURSIVE SinglePassFrom(_, _, _)
SinglePassFrom(text, bundles, k) ==
    IF k > Len(text) THEN <<>>
    ELSE IF \E j \in DOMAIN bundles : bundles[j].start_char + 1 = k
    THEN LET b == bundles[CHOOSE j \in DOMAIN bundles : bundles[j].start_char + 1 = k]
         IN  b.alts[1].text \o SinglePassFrom(text, bundles, k + Len(b.token))
    ELSE <<text[k]>> \o SinglePassFrom(text, bundles, k + 1)

\* C22: under the full strategy generate_rewrites builds one text, the
\* original with every span's token replaced by its bundle's first
\* alternative in a single pass (inserted text is not rewritten again, the
\* order of the bundles does not matter), validates it once and returns
\* [original text] when the validation fails.
C22_FullSinglePass ==
    Computed("full") =>
        /\ ret.generated =
                <<SinglePassFrom(ret.original, WithAlternatives(ret.candidates), 1)>>
        /\ (ret.validating /\ ~validate_rewrite(ret.original, ret.generated[1]))
            => ret.alternatives = <<ret.original>>

\* the nodes of S and every node a directed path leads to from one of them
RECURSIVE ReachableFrom(_, _)
ReachableFrom(graph, S) ==
    LET next == S \cup { e.target : e \in { d \in Range(graph.edges) : d.source \in S } }
    IN  IF next = S THEN S ELSE ReachableFrom(graph, next)

\* the node-id sequence p starts at a matched start node, follows directed
\* edges of the graph and meets a node of a goal modality last and only last
WellFormedPath(graph, start_token, goal_modalities, p) ==
    /\ p # <<>>
    /\ p[1] \in Range(_find_start_nodes(graph, start_token))
    /\ \A n \in 1..(Len(p) - 1) :
           /\ \E e \in Range(graph.edges) : e.source = p[n] /\ e.target = p[n + 1]
           /\ graph.nodes[p[n]] \notin goal_modalities
    /\ graph.nodes[p[Len(p)]] \in goal_modalities

\* C23: dijkstra_paths returns at most max_paths paths, pairwise distinct as
\* node-id sequences, each from a matched start node along directed edges of
\* the graph to a node of a goal modality with no such node before the last;
\* when start nodes exist and no goal node can be reached it returns the
\* empty list and raises nothing.
C23_DistinctGoalPaths ==
    (stg.pc = "done" /\ ~stg.raised) =>
        /\ Len(stg.out) <= stg.max_paths
        /\ \A i \in DOMAIN stg.out : \A j \in DOMAIN stg.out :
               i # j => stg.out[i].nodes # stg.out[j].nodes
        /\ \A k \in DOMAIN stg.out :
               WellFormedPath(stg.graph, stg.start_token, stg.goal_modalities, stg.out[k].nodes)
        /\ (\A n \in ReachableFrom(stg.graph, Range(_find_start_nodes(stg.graph, stg.start_token))) :
                stg.graph.nodes[n] \notin stg.goal_modalities)
            => stg.out = <<>>

\* C24: score_sensory_difficulty with a known strategy returns one record
\* per input span, in input order; a span whose scoring raises gets a record
\* with raw_score = score = confidence = 0, the records of the other spans
\* are those the call returns for the list without the failing spans, and
\* every score and confidence lies in [0,1].
C24_OneRecordPerSpan ==
    (sc.pc = "done" /\ sc.strategy \in {"simple", "contextual", "weighted", "conservative"}) =>
        LET failing(k) == "confidence" \notin DOMAIN sc.spans[k]
            others == { k \in DOMAIN sc.spans : ~failing(k) }
            place(k) == Cardinality({ j \in others : j <= k })
            without == SelectSeq(sc.spans, LAMBDA sp : "confidence" \in DOMAIN sp)
        IN  /\ ~sc.raised
            /\ Len(sc.results) = Len(sc.spans)
            /\ \A k \in DOMAIN sc.spans :
                   /\ sc.results[k].modality = sc.spans[k].modality
                   /\ sc.results[k].token = sc.spans[k].token
                   /\ sc.results[k].score \in 0..1000000000
                   /\ sc.results[k].confidence \in 0..10000
                   /\ failing(k) => /\ sc.results[k].raw_score = 0
                                    /\ sc.results[k].score = 0
                                    /\ sc.results[k].confidence = 0
            /\ \A k \in others :
                   sc.results[k] = score_sensory_difficulty(without, sc.fp, sc.strategy)[place(k)]

C24_Witness ==
    /\ sc.pc = "done"
    /\ sc.strategy = "contextual"
    /\ Len(sc.spans) = 3
    /\ "confidence" \notin DOMAIN sc.spans[2]
    /\ sc.results[2].score = 0
    /\ sc.results[1].score > 0
    /\ sc.results[3].raw_score > 0

\* the adjusted score of a candidate text in hundredths: 1.0, +0.2 when the
\* culture string occurs in the text, +0.05 when the text has at most 3 words
AdjustedScore(text, culture) ==
    100 + (IF SubText(LowerStr(culture), LowerStr(text)) THEN 20 ELSE 0)
        + (IF Len(Split(text)) <= 3 THEN 5 ELSE 0)

\* the texts ordered by adjusted score descending, texts of equal adjusted
\* score in the order they have in the list
StableByAdjusted(texts, culture) ==
    LET level(v) == SelectSeq(texts, LAMBDA t : AdjustedScore(t, culture) = v)
    IN  level(125) \o level(120) \o level(105) \o level(100)

\* C25: the cultural filter of the metaphor retriever orders the candidates
\* by adjusted score descending and is stable: candidates of equal adjusted
\* score keep the relative order in which they entered the filter.
C25_StableFilter ==
    rag.pc = "done" => rag.filtered = StableByAdjusted(rag.entered, rag.culture)

\* C26: the rewrite cache is add-only: over every call of generate_rewrites
\* a key the cache holds stays in it with the same alternatives, a call that
\* finds its key in the cache returns the alternatives stored under it with
\* the strategy of the key, and a call that does not find it stores the
\* alternatives it returns.
C26_CacheAddOnly ==
    [][/\ \A k \in DOMAIN cache : k \in DOMAIN cache' /\ cache'[k] = cache[k]
       /\ (calls' > calls /\ ~ret'.raised) =>
              /\ ret'.key \in DOMAIN cache'
              /\ cache'[ret'.key] = ret'.alternatives
              /\ ret'.strategy = ret'.key[1]
              /\ ret'.hit <=> ret'.key \in DOMAIN cache]_vars

C26_Witness ==
    /\ calls = 2
    /\ ret.op = "generate_rewrites"
    /\ ret.hit
    /\ ret.strategy = "gentle"
    /\ ret.alternatives # <<ret.original>>
    /\ cache[ret.key] = ret.alternatives

\* C27: the rewrite cache is transparent: when generate_rewrites answers
\* from the cache, the alternatives it returns are those the same call (same
\* text, same ordered replacement list, same strategy, same validate flag)
\* computes with an empty cache.
C27_CacheTransparent ==
    (calls > 0 /\ ret.op = "generate_rewrites" /\ ret.hit) =>
        ret.alternatives =
            generate_rewrites(ret.original, ret.candidates, ret.fingerprint, ret.override,
                              ret.validating, <<>>).alternatives

\* C28: a run of run_rewrite_pipeline for a supported language, with a
\* fingerprint object as loaded from memory and a text in which at least one
\* sensory span was detected, raises no exception inside and returns through
\* the success return after detection, scoring, the stages of every span,
\* rewrite generation and validation, not through the fallback handler.
C28_SuccessWithSpans ==
    (/\ run.pc \notin {"idle", "detect"}
     /\ run.language \in LANGUAGE_VARIANTS
     /\ run.entry.kind = "saf"
     /\ run.sensory_spans # <<>>)
    => /\ run.raisedAt = "none"
       /\ run.returned => /\ run.i = Len(run.sensory_spans)
                          /\ Len(run.candidates) = Len(run.sensory_spans)
                          /\ run.result.strategy = run.rewrite_candidates.strategy

\* the kept list when the outer loop of _resolve_overlaps reaches the k-th
\* span of the sorted list
KeptBefore(sorted, k) == ResolveFrom(SubSeq(sorted, 1, k - 1), 1, <<>>)

\* the kept spans in whose favour the k-th span of the sorted list is
\* dropped: those it overlaps without a confidence above theirs
Blockers(sorted, k) ==
    { e \in Range(KeptBefore(sorted, k)) :
          Overlaps(sorted[k], e) /\ ~(sorted[k].confidence > e.confidence) }

\* C29: every span _resolve_overlaps removes from its input overlaps, in
\* characters, a span of the final output whose confidence is not below its
\* own, and a span in whose favour another was dropped is in the final
\* output.
C29_DroppedForASurvivor ==
    resolved.done =>
        LET sorted == SortSpans(cand)
        IN  /\ \A k \in DOMAIN cand :
                   cand[k] \notin Range(resolved.spans) =>
                       \E j \in DOMAIN resolved.spans :
                           /\ Overlaps(cand[k], resolved.spans[j])
                           /\ resolved.spans[j].confidence >= cand[k].confidence
            /\ \A k \in DOMAIN sorted :
                   Blockers(sorted, k) \subseteq Range(resolved.spans)

\* what lines 90-94 add to the cost of a state when it is expanded along
\* the edge: the edge weight and the profile's heuristic_bias
StepCost(graph, user_profile, edge) ==
    LET culture_factor == IF user_profile.truthy THEN user_profile.culture_factor ELSE 1
        penalty        == compute_transition_penalty(graph, edge.source, edge.target,
                                                     user_profile, culture_factor)
    IN  weight(edge, penalty, culture_factor)
        + (IF user_profile.truthy THEN user_profile.heuristic_bias ELSE 0)

\* the loop of lines 70-100 is in a state it does not leave: no node is a
\* goal, so found stays empty, and the queue holds a state that will be
\* recorded (its cost is not above the best held for its node) for a node
\* with an edge to itself along which the cost falls.  Whichever state is
\* popped next, such a state is in the queue afterwards: popped itself, it
\* is expanded and pushes a cheaper state for its node, which line 97 does
\* not prune; a cheaper state popped for the same node does the same.
Trapped ==
    /\ stg.pc = "loop"
    /\ stg.goal_modalities = {}
    /\ Len(stg.found) < stg.max_paths
    /\ \E i \in DOMAIN stg.pq :
           LET n == stg.pq[i].node
           IN  /\ \E e \in Range(neighbors(stg.graph, n)) :
                      e.target = n /\ StepCost(stg.graph, stg.user_profile, e) < 0
               /\ n \in DOMAIN stg.visited_best => stg.pq[i].cost <= stg.visited_best[n]

\* a trapped loop stays trapped over every step, and its condition
\* `pq and len(found) < max_paths` holds
TrappedForGood ==
    [][Trapped => (Trapped' /\ stg.pq # <<>> /\ Len(stg.found) < stg.max_paths)]_vars

\* C30: dijkstra_paths terminates on every finite graph, with cycles,
\* zero-cost edges and parallel edges, for every user profile and every
\* max_paths: its loop is never in a state that no iteration leaves.
C30_Terminates == ~Trapped
====
